---- MODULE Spec2Model ----
(***************************************************************************)
(* CodeRunner (backend/services/codeRunner.js, src/unnamed/part_001): the  *)
(* code execution service of the chat application.  One CodeRunner object  *)
(* is exported; it owns one vm2 VM whose sandbox lives as long as the      *)
(* process.  The model follows the JavaScript job structure: the           *)
(* synchronous part of a call is one step, every promise reaction          *)
(* (microtask) is one step, and the microtask queue is FIFO.               *)
(***************************************************************************)
EXTENDS Integers, Sequences, FiniteSets, TLC

(* ------------------------------------------------------------------ *)
(* Bounds of the model                                                 *)
(* ------------------------------------------------------------------ *)
MaxCalls == 2

CallIds == 1..MaxCalls

(* ------------------------------------------------------------------ *)
(* Program constants                                                   *)
(* ------------------------------------------------------------------ *)
timeout == 10000

maxCodeLength == 10000

SupportedLanguages ==
  {"javascript", "typescript", "python", "html", "css", "json", "markdown"}

(* one identifier outside the registry stands for every unsupported one *)
Languages == SupportedLanguages \cup {"ruby"}

(* ------------------------------------------------------------------ *)
(* JavaScript values, as far as the service looks at them              *)
(* ------------------------------------------------------------------ *)
Null == [t |-> "null", s |-> ""]

Undefined == [t |-> "undefined", s |-> ""]

Str(s) == [t |-> "string", s |-> s]

Num(s) == [t |-> "number", s |-> s]

(* an object, given by its JSON.stringify(value, null, 2) text *)
Obj(s) == [t |-> "object", s |-> s]

(* an object JSON.stringify throws on (it refers to itself), given by what
   its toString() returns *)
Cyclic(s) == [t |-> "cyclic", s |-> s]

(* such an object without a toString method: made by Object.create(null) *)
CyclicBare == [t |-> "bare", s |-> ""]

(* formatOutput(value) throws: in its catch block, value.toString is called
   on an object that has no such method *)
FormatThrows(value) == value.t = "bare"

ToStringError == [k |-> "Error", message |-> [t |-> "string", s |-> "value.toString is not a function"]]

(* formatOutput(value), when it returns *)
formatOutput(value) ==
  CASE value.t = "null" -> "null"
    [] value.t = "undefined" -> "undefined"
    [] value.t = "object" -> value.s
    [] value.t = "cyclic" -> value.s
    [] OTHER -> value.s

(* Values a program can throw: an Error object, null, a primitive, and an
   object whose message property is null. *)
ErrorObj(m) == [k |-> "Error", message |-> Str(m)]

ThrownNull == [k |-> "null", message |-> Undefined]

ThrownString == [k |-> "primitive", message |-> Undefined]

ThrownNullMessage == [k |-> "object", message |-> Null]

(* The evaluation of err.message: reading a property of null (or undefined)
   is itself a TypeError. *)
MessageThrows(err) == err.k = "null"

TypeErrorOfNull == ErrorObj("Cannot read properties of null (reading 'message')")

(* `${value}` and String(value) on the values above *)
ToStr(value) == IF value.t \in {"null", "undefined"} THEN value.t ELSE value.s

(* Array.prototype.join('\n') on an array of strings *)
RECURSIVE Join(_)
Join(lines) ==
  IF lines = <<>> THEN ""
  ELSE IF Len(lines) = 1 THEN lines[1]
  ELSE lines[1] \o "\n" \o Join(Tail(lines))

(* ------------------------------------------------------------------ *)
(* Submitted programs.  What a javascript source does when vm.run       *)
(* evaluates it is given by Program, statement by statement.           *)
(* ------------------------------------------------------------------ *)

Log(level, value) == [op |-> "log", level |-> level, arg |-> value]

LogN == [op |-> "logn"]

Bump == [op |-> "bump"]

Throw(err) == [op |-> "throw", err |-> err]

Loop == [op |-> "loop"]

(* Promise.resolve().then(cb1).then(cb2)...: the bodies of the callbacks *)
Then(chain) == [op |-> "then", chain |-> chain]

(* the evaluation of a global identifier *)
Ref(name) == [op |-> "ref", name |-> name]

(* a call of eval on a string *)
Eval == [op |-> "eval"]

JsSources ==
  { "console.log('hi'); 2+2",
    "console.warn('a'); throw new Error('boom')",
    "throw null",
    "throw 'str'",
    "throw {message: null}",
    "console.log('a'); while(true){}",
    "Promise.resolve().then(() => console.log('late'))",
    "Promise.resolve().then(() => 0).then(() => console.log('late'))",
    "Promise.resolve().then(() => { while(true){} })",
    "var n = (typeof n === 'undefined') ? 0 : n + 1; console.log(n)",
    "require('fs')",
    "eval('1')",
    "Promise.resolve().then(() => process.exit())",
    "null",
    "var o = {}; o.self = o; o",
    "var o = Object.create(null); o.self = o; o" }

(* [ops, value]: the statements and the completion value of the script *)
Program(src) ==
  CASE src = "console.log('hi'); 2+2" ->
         [ops |-> <<Log("log", Str("hi"))>>, value |-> Num("4")]
    [] src = "console.warn('a'); throw new Error('boom')" ->
         [ops |-> <<Log("warn", Str("a")), Throw(ErrorObj("boom"))>>, value |-> Undefined]
    [] src = "throw null" ->
         [ops |-> <<Throw(ThrownNull)>>, value |-> Undefined]
    [] src = "throw 'str'" ->
         [ops |-> <<Throw(ThrownString)>>, value |-> Undefined]
    [] src = "throw {message: null}" ->
         [ops |-> <<Throw(ThrownNullMessage)>>, value |-> Undefined]
    [] src = "console.log('a'); while(true){}" ->
         [ops |-> <<Log("log", Str("a")), Loop>>, value |-> Undefined]
    [] src = "Promise.resolve().then(() => console.log('late'))" ->
         [ops |-> <<Then(<< <<Log("log", Str("late"))>> >>)>>, value |-> Obj("{}")]
    [] src = "Promise.resolve().then(() => 0).then(() => console.log('late'))" ->
         [ops |-> <<Then(<< <<>>, <<Log("log", Str("late"))>> >>)>>, value |-> Obj("{}")]
    [] src = "Promise.resolve().then(() => { while(true){} })" ->
         [ops |-> <<Then(<< <<Loop>> >>)>>, value |-> Obj("{}")]
    [] src = "var n = (typeof n === 'undefined') ? 0 : n + 1; console.log(n)" ->
         [ops |-> <<Bump, LogN>>, value |-> Undefined]
    [] src = "var x = 4; x" ->
         [ops |-> <<>>, value |-> Num("4")]
    [] src = "null" ->
         [ops |-> <<>>, value |-> Null]
    [] src = "var o = {}; o.self = o; o" ->
         [ops |-> <<>>, value |-> Cyclic("[object Object]")]
    [] src = "var o = Object.create(null); o.self = o; o" ->
         [ops |-> <<>>, value |-> CyclicBare]
    [] src = "require('fs')" ->
         [ops |-> <<Ref("require")>>, value |-> Obj("{}")]
    [] src = "eval('1')" ->
         [ops |-> <<Eval>>, value |-> Num("1")]
    [] src = "Promise.resolve().then(() => process.exit())" ->
         [ops |-> <<Then(<< <<Ref("process")>> >>)>>, value |-> Obj("{}")]
    [] src = "console.log(input)" ->
         [ops |-> <<Ref("input"), Log("log", Str("<input>"))>>, value |-> Undefined]
    [] OTHER -> [ops |-> <<>>, value |-> Undefined]

(* code.includes('interface') || code.includes('type') || code.includes(':') *)
HasTypeSyntax(src) ==
  src \in { "var x: number = 4; x",
            "throw {message: null}",
            "var n = (typeof n === 'undefined') ? 0 : n + 1; console.log(n)" }

(* the four replace() calls of executeTypeScript on the sources above *)
StripTypes(src) ==
  CASE src = "var x: number = 4; x" -> "var x = 4; x"
    [] src = "throw {message: null}" -> "throw {message"
    [] src = "var n = (typeof n === 'undefined') ? 0 : n + 1; console.log(n)" ->
         "var n = (typeof n === 'undefined') ? 0  + 1; console.log(n)"
    [] OTHER -> src

(* sources the script compiler rejects *)
SyntaxErrorOf(src) ==
  CASE src = "throw {message" -> "Unexpected end of input"
    [] src = "var n = (typeof n === 'undefined') ? 0  + 1; console.log(n)" ->
         "Unexpected token ';'"
    [] OTHER -> ""

(* JSON.parse(code), and JSON.stringify(parsed, null, 2) of what parsed *)
JsonParse(src) ==
  CASE src = "{\"b\":1,\"a\":2}" ->
         [ok |-> TRUE, text |-> "{\n  \"b\": 1,\n  \"a\": 2\n}", message |-> ""]
    [] src = "{" ->
         [ok |-> FALSE, text |-> "", message |-> "Unexpected end of JSON input"]
    [] OTHER ->
         [ok |-> FALSE, text |-> "", message |-> "Unexpected token / in JSON at position 0"]

(* A code: its source, its length and what JSON.parse makes of it *)
Code(src) == [src |-> src, len |-> Len(src), json |-> JsonParse(src)]

(* sources longer than a literal are given by their length alone *)
CodeAtLimit ==
  [src |-> "/* 10000 characters */", len |-> maxCodeLength,
   json |-> JsonParse("/* 10000 characters */")]

CodeOverLimit ==
  [src |-> "/* 10001 characters */", len |-> maxCodeLength + 1,
   json |-> JsonParse("/* 10001 characters */")]

(* ------------------------------------------------------------------ *)
(* Source text for the validators and the formatters: a sequence of     *)
(* characters.  String.prototype.includes and the regular expressions   *)
(* of the service are computed on it.                                   *)
(* ------------------------------------------------------------------ *)
MaxTextLen == 3

Chars == {"a", "1", ";", "{", "}", "<", ">", "/", " "}

(* texts outside Chars or longer than MaxTextLen: interface a{};"{" and
   interface a{}, which reach the interface branch of validateTypeScript, and
   json numbers with an exponent: 11e1, 1e111, 1e1111 and 1.1e-11 *)
SampleTexts ==
  { <<"i", "n", "t", "e", "r", "f", "a", "c", "e", " ", "a", "{", "}", ";", "\"", "{", "\"">>,
    <<"i", "n", "t", "e", "r", "f", "a", "c", "e", " ", "a", "{", "}">>,
    <<"1", "1", "e", "1">>,
    <<"1", "e", "1", "1", "1">>,
    <<"1", "e", "1", "1", "1", "1">>,
    <<"1", ".", "1", "e", "-", "1", "1">> }

Texts == UNION {[1..n -> Chars] : n \in 0..MaxTextLen} \cup SampleTexts

(* \s and \w *)
SpaceChars == {" ", "\n", "\t", "\r"}

Letters ==
  { "a", "b", "c", "d", "e", "f", "g", "h", "i", "j", "k", "l", "m", "n", "o", "p", "q",
    "r", "s", "t", "u", "v", "w", "x", "y", "z", "A", "B", "C", "D", "E", "F", "G", "H",
    "I", "J", "K", "L", "M", "N", "O", "P", "Q", "R", "S", "T", "U", "V", "W", "X", "Y",
    "Z" }

Digits == {"0", "1", "2", "3", "4", "5", "6", "7", "8", "9"}

WordChars == Letters \cup Digits \cup {"_"}

(* code.includes(literal) *)
Includes(text, literal) ==
  \E i \in 1..(Len(text) + 1) :
    /\ i + Len(literal) - 1 <= Len(text)
    /\ SubSeq(text, i, i + Len(literal) - 1) = literal

(* One element of a regular expression: a character class, complemented when
   neg, taken at least min times, and as often as possible when many (else at
   most once).  In every expression of the service a repeated class is
   followed by a character outside it, so the greedy match is the match. *)
One(set) == [neg |-> FALSE, set |-> set, min |-> 1, many |-> FALSE]

NotOne(set) == [neg |-> TRUE, set |-> set, min |-> 1, many |-> FALSE]

Many(set) == [neg |-> FALSE, set |-> set, min |-> 0, many |-> TRUE]

Some(set) == [neg |-> FALSE, set |-> set, min |-> 1, many |-> TRUE]

ManyNot(set) == [neg |-> TRUE, set |-> set, min |-> 0, many |-> TRUE]

SomeNot(set) == [neg |-> TRUE, set |-> set, min |-> 1, many |-> TRUE]

Literal(chars) == [k \in 1..Len(chars) |-> One({chars[k]})]

InClass(ch, e) == (ch \in e.set) # e.neg

(* how many characters from position i on the element e takes *)
RECURSIVE RunLen(_, _, _)
RunLen(text, i, e) ==
  IF i > Len(text) \/ ~InClass(text[i], e) THEN 0
  ELSE IF e.many THEN 1 + RunLen(text, i + 1, e)
  ELSE 1

(* the position after the match of pat[k..] at position i, or 0 *)
RECURSIVE MatchFrom(_, _, _, _)
MatchFrom(text, i, pat, k) ==
  IF k > Len(pat) THEN i
  ELSE LET n == RunLen(text, i, pat[k])
       IN IF n < pat[k].min THEN 0 ELSE MatchFrom(text, i + n, pat, k + 1)

(* text.replace(/pat/g, replacement), scanning from position i *)
RECURSIVE ReplaceFrom(_, _, _, _)
ReplaceFrom(text, i, pat, replacement) ==
  IF i > Len(text) THEN <<>>
  ELSE LET e == MatchFrom(text, i, pat, 1)
       IN IF e # 0 THEN replacement \o ReplaceFrom(text, e, pat, replacement)
          ELSE <<text[i]>> \o ReplaceFrom(text, i + 1, pat, replacement)

ReplaceAll(text, pat, replacement) == ReplaceFrom(text, 1, pat, replacement)

(* (text.match(/pat/g) || []).length, scanning from position i *)
RECURSIVE CountFrom(_, _, _)
CountFrom(text, i, pat) ==
  IF i > Len(text) THEN 0
  ELSE LET e == MatchFrom(text, i, pat, 1)
       IN IF e # 0 THEN 1 + CountFrom(text, e, pat) ELSE CountFrom(text, i + 1, pat)

CountMatches(text, pat) == CountFrom(text, 1, pat)

(* ------------------------------------------------------------------ *)
(* The parsers of the runtime                                          *)
(* ------------------------------------------------------------------ *)
(* JSON.parse on a text.  Of the JSON grammar the parser reads white space,
   numbers without a sign (integer part, fraction, exponent with its sign),
   the literal null and the empty object: what the texts of the model and
   the output of StringifyJSON hold.  [ok, value, message].
   A number is kept as its significant digits and its decimal magnitude:
   sig = <<d1, d2, ...>> without zeros at either end and mag stand for
   d1.d2... * 10^mag, which is the double read as long as sig has at most 17
   digits.  A number of magnitude 309 or more is read as Infinity, one below
   the smallest double as 0. *)
SkipSpace(text, i) == i + RunLen(text, i, Many({" ", "\n", "\t", "\r"}))

UnexpectedToken(text, i) ==
  IF i > Len(text) THEN "Unexpected end of JSON input"
  ELSE IF text[i] \in Digits THEN "Unexpected number in JSON at position " \o ToString(i - 1)
  ELSE "Unexpected token " \o text[i] \o " in JSON at position " \o ToString(i - 1)

DigitValue(ch) ==
  CASE ch = "0" -> 0 [] ch = "1" -> 1 [] ch = "2" -> 2 [] ch = "3" -> 3 [] ch = "4" -> 4
    [] ch = "5" -> 5 [] ch = "6" -> 6 [] ch = "7" -> 7 [] ch = "8" -> 8 [] ch = "9" -> 9

DigitChar(d) == <<"0", "1", "2", "3", "4", "5", "6", "7", "8", "9">>[d + 1]

RECURSIVE ToInt(_)
ToInt(digits) ==
  IF digits = <<>> THEN 0
  ELSE 10 * ToInt(SubSeq(digits, 1, Len(digits) - 1)) + DigitValue(digits[Len(digits)])

RECURSIVE IntToChars(_)
IntToChars(n) == IF n < 10 THEN <<DigitChar(n)>> ELSE Append(IntToChars(n \div 10), DigitChar(n % 10))

Zeros(n) == [k \in 1..n |-> "0"]

RECURSIVE StripLeadingZeros(_)
StripLeadingZeros(digits) ==
  IF digits # <<>> /\ Head(digits) = "0" THEN StripLeadingZeros(Tail(digits)) ELSE digits

RECURSIVE StripTrailingZeros(_)
StripTrailingZeros(digits) ==
  IF digits # <<>> /\ digits[Len(digits)] = "0"
  THEN StripTrailingZeros(SubSeq(digits, 1, Len(digits) - 1))
  ELSE digits

NoValue == [t |-> "none", sig |-> <<>>, mag |-> 0]

NullValue == [t |-> "null", sig |-> <<>>, mag |-> 0]

ObjectValue == [t |-> "object", sig |-> <<>>, mag |-> 0]

InfinityValue == [t |-> "infinity", sig |-> <<>>, mag |-> 0]

(* the double of the decimal digits with the point after intLen of them,
   times 10^exp *)
NumberValue(digits, intLen, exp) ==
  LET rest == StripLeadingZeros(digits)
      sig == StripTrailingZeros(rest)
      mag == intLen - 1 - (Len(digits) - Len(rest)) + exp
  IN IF sig = <<>> \/ mag < -324 THEN [t |-> "number", sig |-> <<>>, mag |-> 0]
     ELSE IF mag >= 309 THEN InfinityValue
     ELSE [t |-> "number", sig |-> sig, mag |-> mag]

(* where the fraction that may start at position j ends: j when no point
   is there *)
FractionEnd(text, j) ==
  IF j <= Len(text) /\ text[j] = "." THEN j + 1 + RunLen(text, j + 1, Many(Digits)) ELSE j

(* where the digits of the exponent that may start at position k start: k
   when no e is there *)
ExponentStart(text, k) ==
  IF k <= Len(text) /\ text[k] \in {"e", "E"}
  THEN IF k + 1 <= Len(text) /\ text[k + 1] \in {"+", "-"} THEN k + 2 ELSE k + 1
  ELSE k

(* the number whose integer part is i..j-1, fraction j+1..k-1 and exponent
   digits e..m-1 *)
ParseNumberEnd(text, i, j, k, e, m) ==
  IF k = j + 1 THEN [next |-> 0, at |-> j + 1, value |-> NoValue]
  ELSE IF e > k /\ m = e THEN [next |-> 0, at |-> e, value |-> NoValue]
  ELSE [next |-> m, at |-> 0,
        value |-> NumberValue(
                    SubSeq(text, i, j - 1) \o (IF k > j THEN SubSeq(text, j + 1, k - 1) ELSE <<>>),
                    j - i,
                    IF e = k THEN 0
                    ELSE IF text[k + 1] = "-" THEN 0 - ToInt(SubSeq(text, e, m - 1))
                    ELSE ToInt(SubSeq(text, e, m - 1)))]

ParseNumberExponent(text, i, j, k, e) ==
  ParseNumberEnd(text, i, j, k, e, IF e > k THEN e + RunLen(text, e, Many(Digits)) ELSE k)

ParseNumberFraction(text, i, j, k) == ParseNumberExponent(text, i, j, k, ExponentStart(text, k))

(* a number that starts at position i, a digit: [next, value], or next = 0
   and the position at |-> of the character that cannot follow *)
ParseNumber(text, i) ==
  ParseNumberFraction(
    text, i,
    i + (IF text[i] = "0" THEN 1 ELSE RunLen(text, i, Many(Digits))),
    FractionEnd(text, i + (IF text[i] = "0" THEN 1 ELSE RunLen(text, i, Many(Digits)))))

(* the value that starts at position i *)
ParseValue(text, i) ==
  IF i > Len(text) THEN [next |-> 0, at |-> i, value |-> NoValue]
  ELSE IF text[i] \in Digits THEN ParseNumber(text, i)
  ELSE IF text[i] = "{"
  THEN LET j == SkipSpace(text, i + 1)
       IN IF j <= Len(text) /\ text[j] = "}"
          THEN [next |-> j + 1, at |-> 0, value |-> ObjectValue]
          ELSE [next |-> 0, at |-> j, value |-> NoValue]
  ELSE IF i + 3 <= Len(text) /\ SubSeq(text, i, i + 3) = <<"n", "u", "l", "l">>
  THEN [next |-> i + 4, at |-> 0, value |-> NullValue]
  ELSE [next |-> 0, at |-> i, value |-> NoValue]

ParseJSON(text) ==
  LET parsed == ParseValue(text, SkipSpace(text, 1))
      k == SkipSpace(text, parsed.next)
  IN IF parsed.next = 0
     THEN [ok |-> FALSE, value |-> NoValue, message |-> UnexpectedToken(text, parsed.at)]
     ELSE IF k <= Len(text)
     THEN [ok |-> FALSE, value |-> NoValue, message |-> UnexpectedToken(text, k)]
     ELSE [ok |-> TRUE, value |-> parsed.value, message |-> ""]

(* Number.prototype.toString of a double given by sig and mag *)
NumberToChars(sig, mag) ==
  LET k == Len(sig)
      n == mag + 1
  IN IF k = 0 THEN <<"0">>
     ELSE IF k <= n /\ n <= 21 THEN sig \o Zeros(n - k)
     ELSE IF 0 < n /\ n <= 21 THEN SubSeq(sig, 1, n) \o <<".">> \o SubSeq(sig, n + 1, k)
     ELSE IF -6 < n /\ n <= 0 THEN <<"0", ".">> \o Zeros(0 - n) \o sig
     ELSE <<sig[1]>> \o (IF k > 1 THEN <<".">> \o SubSeq(sig, 2, k) ELSE <<>>)
            \o <<"e", IF mag < 0 THEN "-" ELSE "+">>
            \o IntToChars(IF mag < 0 THEN 0 - mag ELSE mag)

StringifyJSON_integral(value) ==
  CASE value.t = "number" -> IF value.sig = <<>> THEN <<"0">> ELSE value.sig
    [] value.t = "object" -> <<"{", "}">>
    [] OTHER -> <<"n", "u", "l", "l">>

(* JSON.stringify(value, null, 2) of a value ParseJSON gives: a number that
   is not finite is written null *)
StringifyJSON(value) ==
  CASE value.t = "number" -> NumberToChars(value.sig, value.mag)
    [] value.t = "object" -> <<"{", "}">>
    [] OTHER -> <<"n", "u", "l", "l">>

(* the text as one string *)
RECURSIVE TextToString(_)
TextToString(text) == IF text = <<>> THEN "" ELSE Head(text) \o TextToString(Tail(text))

(* the text as a code given to executeCode *)
TextCode(text) ==
  [src |-> TextToString(text), len |-> Len(text),
   json |-> LET parsed == ParseJSON(text)
            IN [ok |-> parsed.ok,
                text |-> IF parsed.ok THEN TextToString(StringifyJSON(parsed.value)) ELSE "",
                message |-> parsed.message]]

(* new Function(code) compiles the text and runs nothing.  Which texts the
   script compiler accepts is not computed: engine.code and engine.stripped
   say whether it accepts the code and the code stripped of its types, and
   every verdict is explored. *)
SyntaxErrorMessage == "Unexpected token"

(* ------------------------------------------------------------------ *)
(* validateCode and the validators                                     *)
(* ------------------------------------------------------------------ *)
validateJavaScript(code, engine) ==
  IF engine.code
  THEN [isValid |-> TRUE, errors |-> <<>>, warnings |-> <<>>]
  ELSE [isValid |-> FALSE, errors |-> <<SyntaxErrorMessage>>, warnings |-> <<>>]

TypeChars == Letters \cup {"<", ">", "[", "]", "{", "}", "|", "&"}

(* /:\s*[a-zA-Z<>\[\]{}|&]+/g *)
TypeAnnotation == <<One({":"}), Many(SpaceChars), Some(TypeChars)>>

(* /interface\s+\w+\s*{/g *)
InterfaceHead ==
  Literal(<<"i", "n", "t", "e", "r", "f", "a", "c", "e">>)
    \o <<Some(SpaceChars), Some(WordChars), Many(SpaceChars), One({"{"})>>

(* /interface\s+\w+\s*{[^}]*}/g *)
InterfaceDecl == InterfaceHead \o <<ManyNot({"}"}), One({"}"})>>

(* /type\s+\w+\s*=\s*[^;]+;/g; the white space after = is part of [^;]+ *)
TypeAlias ==
  Literal(<<"t", "y", "p", "e">>)
    \o <<Some(SpaceChars), Some(WordChars), Many(SpaceChars), One({"="}),
         SomeNot({";"}), One({";"})>>

(* /<[^>]*>/g *)
Generic == <<One({"<"}), ManyNot({">"}), One({">"})>>

(* the replace() chain of validateTypeScript and executeTypeScript *)
StripTypeSyntax(code) ==
  ReplaceAll(ReplaceAll(ReplaceAll(ReplaceAll(code, TypeAnnotation, <<>>),
                                   InterfaceDecl, <<>>),
                        TypeAlias, <<>>),
             Generic, <<>>)

validateTypeScript(code, engine) ==
  LET checked == /\ (Includes(code, <<"i", "n", "t", "e", "r", "f", "a", "c", "e">>)
                       \/ Includes(code, <<"t", "y", "p", "e">>))
                 /\ CountMatches(code, InterfaceHead) > 0
      errors == IF checked /\ CountMatches(code, <<One({"{"})>>)
                                # CountMatches(code, <<One({"}"})>>)
                THEN <<"Mismatched braces in TypeScript code">>
                ELSE <<>>
  IN IF engine.stripped
     THEN [isValid |-> errors = <<>>, errors |-> errors, warnings |-> <<>>]
     ELSE [isValid |-> FALSE,
           errors |-> Append(errors, "JavaScript execution failed: " \o SyntaxErrorMessage),
           warnings |-> <<>>]

validateJSON_generic(code) ==
  IF ParseJSON(code).ok
  THEN [isValid |-> TRUE, errors |-> <<>>, warnings |-> <<>>]
  ELSE [isValid |-> FALSE, errors |-> <<"Invalid JSON">>, warnings |-> <<>>]

validateJSON(code) ==
  LET parsed == ParseJSON(code)
  IN IF parsed.ok
     THEN [isValid |-> TRUE, errors |-> <<>>, warnings |-> <<>>]
     ELSE [isValid |-> FALSE, errors |-> <<parsed.message>>, warnings |-> <<>>]

(* /<[^/][^>]*>/g and /<\/[^>]*>/g *)
OpenTag == <<One({"<"}), NotOne({"/"}), ManyNot({">"}), One({">"})>>

CloseTag == <<One({"<"}), One({"/"}), ManyNot({">"}), One({">"})>>

validateHTML_strict(code) ==
  LET warnings == IF CountMatches(code, OpenTag) # CountMatches(code, CloseTag)
                  THEN <<"Possible unclosed HTML tags">>
                  ELSE <<>>
  IN [isValid |-> warnings = <<>>, errors |-> <<>>, warnings |-> warnings]

validateHTML(code) ==
  LET structure == IF ~Includes(code, <<"<", "h", "t", "m", "l">>)
                      /\ ~Includes(code, <<"<", "b", "o", "d", "y">>)
                   THEN <<"Missing HTML structure tags">>
                   ELSE <<>>
      unclosed == IF CountMatches(code, OpenTag) # CountMatches(code, CloseTag)
                  THEN <<"Possible unclosed HTML tags">>
                  ELSE <<>>
  IN [isValid |-> TRUE, errors |-> <<>>, warnings |-> structure \o unclosed]

validateCSS_strict(code) ==
  IF ~Includes(code, <<"{">>) \/ ~Includes(code, <<"}">>)
  THEN [isValid |-> FALSE, errors |-> <<"Missing CSS braces">>, warnings |-> <<>>]
  ELSE [isValid |-> TRUE, errors |-> <<>>, warnings |-> <<>>]

validateCSS(code) ==
  [isValid |-> TRUE, errors |-> <<>>,
   warnings |-> IF ~Includes(code, <<"{">>) \/ ~Includes(code, <<"}">>)
                THEN <<"Missing CSS braces">>
                ELSE <<>>]

validatePython(code) ==
  [isValid |-> TRUE, errors |-> <<>>, warnings |-> <<"Python validation not yet implemented">>]

validateMarkdown(code) == [isValid |-> TRUE, errors |-> <<>>, warnings |-> <<>>]

UnsupportedValidation_accepting(language) == [isValid |-> TRUE, errors |-> <<>>]

(* the default branch of validateCode: a result without a warnings field *)
UnsupportedValidation(language) ==
  [isValid |-> FALSE, errors |-> <<"Unsupported language: " \o language>>]

(* validateCode(code, language).  No validator throws on a string, so the
   catch of validateCode is not entered. *)
validateCode(code, language, engine) ==
  [kind |-> "return",
   value |-> CASE language = "javascript" -> validateJavaScript(code, engine)
               [] language = "typescript" -> validateTypeScript(code, engine)
               [] language = "json" -> validateJSON(code)
               [] language = "html" -> validateHTML(code)
               [] language = "css" -> validateCSS(code)
               [] language = "python" -> validatePython(code)
               [] language = "markdown" -> validateMarkdown(code)
               [] OTHER -> UnsupportedValidation(language)]

(* ------------------------------------------------------------------ *)
(* formatCode and the formatters                                       *)
(* ------------------------------------------------------------------ *)
(* String.prototype.trim *)
RECURSIVE TrimStart(_)
TrimStart(text) ==
  IF text # <<>> /\ Head(text) \in SpaceChars THEN TrimStart(Tail(text)) ELSE text

RECURSIVE TrimEnd(_)
TrimEnd(text) ==
  IF text # <<>> /\ text[Len(text)] \in SpaceChars
  THEN TrimEnd(SubSeq(text, 1, Len(text) - 1))
  ELSE text

Trim(text) == TrimEnd(TrimStart(text))

EndsWith(text, ch) == text # <<>> /\ text[Len(text)] = ch

Return(value) == [kind |-> "return", value |-> value]

ThrowError(message) == [kind |-> "throw", value |-> ErrorObj(message)]

formatJavaScript_untrimmed(code) ==
  IF ~EndsWith(code, ";") /\ ~EndsWith(code, "}")
  THEN Return([code |-> Append(code, ";"), changes |-> <<"Added missing semicolon">>])
  ELSE Return([code |-> code, changes |-> <<>>])

formatJavaScript(code) ==
  IF ~EndsWith(Trim(code), ";") /\ ~EndsWith(Trim(code), "}")
  THEN Return([code |-> Append(code, ";"), changes |-> <<"Added missing semicolon">>])
  ELSE Return([code |-> code, changes |-> <<>>])

formatJSON_lenient(code) ==
  LET parsed == ParseJSON(code)
  IN IF parsed.ok
     THEN Return([code |-> StringifyJSON(parsed.value),
                  changes |-> <<"Formatted JSON with proper indentation">>])
     ELSE Return([code |-> code, changes |-> <<>>])

formatJSON(code) ==
  LET parsed == ParseJSON(code)
  IN IF parsed.ok
     THEN Return([code |-> StringifyJSON(parsed.value),
                  changes |-> <<"Formatted JSON with proper indentation">>])
     ELSE ThrowError("Invalid JSON: " \o parsed.message)

(* replace(/>\s*</g, '>\n<') *)
formatHTML(code) ==
  Return([code |-> ReplaceAll(code, <<One({">"}), Many(SpaceChars), One({"<"})>>,
                              <<">", "\n", "<">>),
          changes |-> <<"Added line breaks between HTML tags">>])

(* replace(/{\s*/g, ' {\n  ') and then replace(/;\s*}/g, ';\n}') *)
formatCSS(code) ==
  Return([code |-> ReplaceAll(ReplaceAll(code, <<One({"{"}), Many(SpaceChars)>>,
                                         <<" ", "{", "\n", " ", " ">>),
                              <<One({";"}), Many(SpaceChars), One({"}"})>>,
                              <<";", "\n", "}">>),
          changes |-> <<"Added proper CSS formatting">>])

DefaultFormat_rejecting(code, language) ==
  ThrowError("Code formatting failed: Unsupported language: " \o language)

(* the default branch of formatCode *)
DefaultFormat(code, language) == Return([code |-> code, changes |-> <<>>])

(* formatCode(code, language): what a formatter throws is thrown again with a
   prefix *)
formatCode(code, language) ==
  LET r == CASE language = "javascript" -> formatJavaScript(code)
             [] language = "json" -> formatJSON(code)
             [] language = "html" -> formatHTML(code)
             [] language = "css" -> formatCSS(code)
             [] OTHER -> DefaultFormat(code, language)
  IN IF r.kind = "throw"
     THEN ThrowError("Code formatting failed: " \o ToStr(r.value.message))
     ELSE r

(* ------------------------------------------------------------------ *)
(* State                                                               *)
(* ------------------------------------------------------------------ *)
VARIABLES
  calls,          \* per executeCode call: position, arguments, executor promise, result
  sandboxConsole, \* whose output array this.vm.sandbox.console pushes to (0: the constructor's)
  jsOutput,       \* per call: the output array of its executeJavaScript, entries [line, by]
  sandboxN,       \* the sandbox global n of the long-lived VM (-1: not defined)
  microtasks,     \* the promise job queue, first in first out
  hung,           \* the thread is inside a loop that no timeout covers
  invoked,        \* per call: the executors it has entered
  ran,            \* per call: how many jobs have run code submitted in it
  textCode,       \* the code given to validateCode and formatCode
  textLanguage,   \* the language given to them
  compiler,       \* the script compiler's verdict on the code and on the stripped code
  validation,     \* what validateCode answered
  formatted,      \* what formatCode answered
  reformatted     \* what formatCode answered when given the code it had returned

execVars == <<calls, sandboxConsole, jsOutput, sandboxN, microtasks, hung, invoked, ran>>

textVars == <<textCode, textLanguage, compiler, validation, formatted, reformatted>>

(* the answers of GET /templates/:language, in the order of the requests *)
VARIABLES responses

routeVars == <<responses>>

(* the sqlite database of services/memory.js and the calls of the service *)
VARIABLES
  dbConversations, \* the ids of the rows of table conversations
  dbMessages,      \* the rows of table messages: [id, conversation_id]
  dbCalls,         \* the calls of the service, in call order: [op, id, st]
  uuids            \* how many ids uuidv4 has issued

storeVars == <<dbConversations, dbMessages, dbCalls, uuids>>

(* a MultiAIService and one call of its generateResponse *)
VARIABLES
  providers,   \* the names of this.providers, the providers with an api key
  provider,    \* preferredProvider || this.defaultProvider of the call
  aiSt,        \* where the call is: new, idle, try, catch, returned, thrown
  aiIndex,     \* the position of the catch block's loop in Object.keys(this.providers)
  aiInvoked,   \* the callProvider invocations of the call, in order: [name, ok]
  aiResponse   \* the provider whose response the call returned

aiVars == <<providers, provider, aiSt, aiIndex, aiInvoked, aiResponse>>

(* one call of ApiService.retryRequest *)
VARIABLES
  maxRetries,  \* its argument maxRetries
  delay,       \* its argument delay, in milliseconds
  retrySt,     \* where the call is: idle, calling, waiting, resolved, rejected
  retryI,      \* the loop variable i
  attempts,    \* the invocations of fn, in order: [n, ok]
  waits,       \* the timeouts the call has set, in order
  retryResult  \* what the call settled with: [ok, n] of an attempt, or undefined

retryVars == <<maxRetries, delay, retrySt, retryI, attempts, waits, retryResult>>

(* the App component, its CodeEditor and the execute requests of the editor *)
VARIABLES
  isCodeRunning,   \* App's state isCodeRunning
  codeOutput,      \* App's state codeOutput
  isRunning,       \* the isRunning prop of the CodeEditor as last rendered
  editorValue,     \* CodeEditor's state editorValue
  executeRequests, \* how many api.executeCode requests of the editor are in flight
  runCount,        \* how many times App's handleRunCode has been called
  lastResponse     \* what the last settled request settled with

editorVars ==
  <<isCodeRunning, codeOutput, isRunning, editorValue, executeRequests, runCount, lastResponse>>

(* the state of the other modules of the application *)
extraVars == <<routeVars, storeVars, aiVars, retryVars, editorVars>>

vars == <<execVars, textVars, extraVars>>

Requests ==
  {[code |-> Code(src), language |-> "javascript", input |-> ""] : src \in JsSources}
  \cup {[code |-> Code(src), language |-> "typescript", input |-> ""] :
          src \in { "console.log('hi'); 2+2", "throw null", "throw {message: null}",
                    "console.log('a'); while(true){}", "var x: number = 4; x" }}
  \cup {[code |-> Code("console.log(input)"), language |-> "javascript", input |-> i] :
          i \in {"a", "b"}}
  \cup {[code |-> CodeOverLimit, language |-> l, input |-> ""] : l \in Languages}
  \cup {[code |-> CodeAtLimit, language |-> l, input |-> ""] : l \in {"javascript", "html"}}
  \cup {[code |-> Code("print(1)"), language |-> "python", input |-> i] : i \in {"", "in"}}
  \cup {[code |-> Code("<p>hi</p>"), language |-> l, input |-> ""] :
          l \in {"html", "css", "markdown", "ruby"}}
  \cup {[code |-> Code(src), language |-> "json", input |-> ""] :
          src \in {"{\"b\":1,\"a\":2}", "{"}}

NoRequest == [code |-> [src |-> "", len |-> 0], language |-> "", input |-> ""]

Pending == [ok |-> TRUE, js |-> FALSE, lines |-> <<>>, err |-> ErrorObj(""), captured |-> <<>>]

NoResult == [output |-> "", error |-> Null, executionTime |-> "", language |-> "", success |-> FALSE]

NotCalled == [kind |-> "none"]

ExecInit ==
  /\ calls = [c \in CallIds |->
               [st |-> "idle", req |-> NoRequest, settled |-> Pending, result |-> NoResult]]
  /\ sandboxConsole = 0
  /\ jsOutput = [c \in CallIds |-> <<>>]
  /\ sandboxN = -1
  /\ microtasks = <<>>
  /\ hung = FALSE
  /\ invoked = [c \in CallIds |-> {}]
  /\ ran = [c \in CallIds |-> 0]

TextIdle ==
  /\ textCode = <<>>
  /\ textLanguage = ""
  /\ compiler = [code |-> TRUE, stripped |-> TRUE]
  /\ validation = NotCalled
  /\ formatted = NotCalled
  /\ reformatted = NotCalled

RouteIdle == responses = <<>>

StoreInit ==
  /\ dbConversations = {}
  /\ dbMessages = {}
  /\ dbCalls = <<>>
  /\ uuids = 0

AiInit ==
  /\ providers = {}
  /\ provider = ""
  /\ aiSt = "new"
  /\ aiIndex = 0
  /\ aiInvoked = <<>>
  /\ aiResponse = ""

NotSettled == [t |-> "none", n |-> 0]

RetryInit ==
  /\ maxRetries = 0
  /\ delay = 0
  /\ retrySt = "idle"
  /\ retryI = 0
  /\ attempts = <<>>
  /\ waits = <<>>
  /\ retryResult = NotSettled

NoResponse == [kind |-> "none", output |-> "", error |-> Null, message |-> ""]

EditorInit ==
  /\ isCodeRunning = FALSE
  /\ codeOutput = Null
  /\ isRunning = FALSE
  /\ editorValue = "// Welcome to the Code Editor!"
  /\ executeRequests = 0
  /\ runCount = 0
  /\ lastResponse = NoResponse

ExtraIdle == RouteIdle /\ StoreInit /\ AiInit /\ RetryInit /\ EditorInit

Init == ExecInit /\ TextIdle /\ ExtraIdle

(* ------------------------------------------------------------------ *)
(* The sandbox: console capture and vm.run                             *)
(* ------------------------------------------------------------------ *)
(* the keys of the object createSafeSandbox returns: the names the VM is
   given besides the intrinsics of the language *)
SandboxGlobals ==
  { "console", "Math", "Date", "JSON", "Array", "ArrayBuffer", "Int8Array", "Uint8Array",
    "Int16Array", "Uint16Array", "Int32Array", "Uint32Array", "Float32Array",
    "Float64Array", "String", "Number", "Boolean", "Object", "RegExp", "Map", "Set",
    "WeakMap", "WeakSet", "Promise", "Error", "TypeError", "ReferenceError",
    "SyntaxError", "RangeError", "parseInt", "parseFloat", "isNaN", "isFinite",
    "encodeURI", "encodeURIComponent", "decodeURI", "decodeURIComponent", "escape",
    "unescape" }

ReferenceError(name) == ErrorObj(name \o " is not defined")

(* eval: false in the options of the VM *)
EvalError == ErrorObj("Code generation from strings disallowed for this context")

State ==
  [calls |-> calls, console |-> sandboxConsole, out |-> jsOutput, n |-> sandboxN,
   q |-> microtasks, hung |-> hung, invoked |-> invoked, ran |-> ran]

(* the level tag of the console methods installed by executeJavaScript *)
LevelPrefix(level) ==
  CASE level = "log" -> ""
    [] level = "error" -> "ERROR: "
    [] level = "warn" -> "WARN: "
    [] level = "info" -> "INFO: "
    [] level = "debug" -> "DEBUG: "

(* console.<level>(value), called by code of call `me`: the global console is
   looked up when the call is made, and its closure pushes onto the output
   array it was created over.  The constructor's console captures nothing. *)
ConsoleCall(s, me, level, value) ==
  IF s.console = 0 THEN s
  ELSE [s EXCEPT !.out[s.console] =
          Append(@, [line |-> LevelPrefix(level) \o formatOutput(value), by |-> me])]

Callback(me, chain) == [kind |-> "callback", c |-> me, chain |-> chain]

ExecuteCodeResume(c) == [kind |-> "executeCode", c |-> c, chain |-> <<>>]

ExecuteTypeScriptResume(c) == [kind |-> "executeTypeScript", c |-> c, chain |-> <<>>]

(* The statements of a script or of a promise callback, run to completion.
   x = [s, end, err]: end is "done", "throw" or "loop". *)
RECURSIVE RunOps(_, _, _)
RunOps(ops, me, x) ==
  IF ops = <<>> THEN x
  ELSE LET o == Head(ops)
           rest == Tail(ops)
       IN CASE o.op = "log" ->
                 IF x.s.console # 0 /\ FormatThrows(o.arg)
                 THEN [x EXCEPT !.end = "throw", !.err = ToStringError]
                 ELSE RunOps(rest, me, [x EXCEPT !.s = ConsoleCall(@, me, o.level, o.arg)])
            [] o.op = "logn" ->
                 RunOps(rest, me,
                        [x EXCEPT !.s = ConsoleCall(@, me, "log", Num(ToString(x.s.n)))])
            [] o.op = "bump" ->
                 RunOps(rest, me, [x EXCEPT !.s.n = IF @ < 0 THEN 0 ELSE @ + 1])
            [] o.op = "then" ->
                 RunOps(rest, me, [x EXCEPT !.s.q = Append(@, Callback(me, o.chain))])
            [] o.op = "ref" ->
                 IF o.name \in SandboxGlobals THEN RunOps(rest, me, x)
                 ELSE [x EXCEPT !.end = "throw", !.err = ReferenceError(o.name)]
            [] o.op = "eval" -> [x EXCEPT !.end = "throw", !.err = EvalError]
            [] o.op = "throw" -> [x EXCEPT !.end = "throw", !.err = o.err]
            [] o.op = "loop" -> [x EXCEPT !.end = "loop"]

TimeoutError == ErrorObj("Script execution timed out after " \o ToString(timeout) \o "ms")

(* this.vm.run(code): compile, then run under the VM's timeout, which covers
   the synchronous run of the script and nothing scheduled by it. *)
VmRun(src, me, s) ==
  IF SyntaxErrorOf(src) # ""
  THEN [s |-> s, end |-> "throw", err |-> ErrorObj(SyntaxErrorOf(src))]
  ELSE LET x == RunOps(Program(src).ops, me,
                       [s |-> [s EXCEPT !.ran[me] = @ + 1], end |-> "done", err |-> ErrorObj("")])
       IN IF x.end = "loop" THEN [x EXCEPT !.end = "throw", !.err = TimeoutError] ELSE x

(* executeJavaScript(code, input) up to its return: [s, settled].  When the
   run throws, the array is not handed to executeCode; settled.captured
   keeps what it held at the throw, for the properties to refer to. *)
executeJavaScript(c, src, s) ==
  LET s1 == [s EXCEPT !.out[c] = <<>>, !.console = c, !.invoked[c] = @ \cup {"javascript"}]
      x == VmRun(src, c, s1)
      result == Program(src).value
  IN IF x.end = "throw"
     THEN [s |-> x.s,
           settled |-> [ok |-> FALSE, js |-> FALSE, lines |-> <<>>, err |-> x.err,
                        captured |-> x.s.out[c]]]
     ELSE IF result # Undefined /\ FormatThrows(result)
     THEN [s |-> x.s,
           settled |-> [ok |-> FALSE, js |-> FALSE, lines |-> <<>>, err |-> ToStringError,
                        captured |-> x.s.out[c]]]
     ELSE [s |-> IF result # Undefined
                 THEN [x.s EXCEPT !.out[c] = Append(@, [line |-> formatOutput(result), by |-> c])]
                 ELSE x.s,
           settled |-> [ok |-> TRUE, js |-> TRUE, lines |-> <<>>, err |-> ErrorObj(""),
                        captured |-> <<>>]]

(* ------------------------------------------------------------------ *)
(* The executors without a runtime.  The three grave accents of a code *)
(* fence are written as three apostrophes: a TLA+ string cannot hold   *)
(* a grave accent.                                                     *)
(* ------------------------------------------------------------------ *)
executePython_notice_only(code, input) ==
  << "Python execution is not yet implemented in this demo version.",
     "Code received:",
     "Input received: " \o input >>

executePython(code, input) ==
  << "Python execution is not yet implemented in this demo version.",
     "Code received:",
     code.src,
     "Input received: " \o input >>

executeHTML(code) ==
  << "HTML Preview:", "'''html", code.src, "'''", "",
     "Note: This is a preview. To see the rendered result, copy the HTML to a file and open it in a browser." >>

executeCSS(code) ==
  << "CSS Code:", "'''css", code.src, "'''", "",
     "Note: This is a preview. To see the rendered result, copy the CSS to a file and link it to an HTML document." >>

executeMarkdown(code) ==
  << "Markdown Preview:", "'''markdown", code.src, "'''", "",
     "Note: This is a preview. To see the rendered result, copy the markdown to a file and open it in a markdown viewer." >>

Resolved(lines) ==
  [ok |-> TRUE, js |-> FALSE, lines |-> lines, err |-> ErrorObj(""), captured |-> <<>>]

Rejected(err) ==
  [ok |-> FALSE, js |-> FALSE, lines |-> <<>>, err |-> err, captured |-> <<>>]

executeJSON_bare(code) ==
  LET parsed == code.json
  IN IF parsed.ok
     THEN Resolved(<<"Valid JSON:", "'''json", parsed.text, "'''">>)
     ELSE Rejected(ErrorObj(parsed.message))

executeJSON(code) ==
  LET parsed == code.json
  IN IF parsed.ok
     THEN Resolved(<<"Valid JSON:", "'''json", parsed.text, "'''">>)
     ELSE Rejected(ErrorObj("Invalid JSON: " \o parsed.message))

(* executeTypeScript(code, input) up to its await: [s, settled] *)
executeTypeScript(c, src, s) ==
  LET s1 == [s EXCEPT !.invoked[c] = @ \cup {"typescript"}]
  IN executeJavaScript(c, IF HasTypeSyntax(src) THEN StripTypes(src) ELSE src, s1)

(* the catch block of executeTypeScript, entered with the rejection of the
   awaited executeJavaScript: the error executeTypeScript rejects with *)
TypeScriptCatch(err) ==
  IF MessageThrows(err) THEN TypeErrorOfNull
  ELSE ErrorObj("TypeScript execution failed: " \o ToStr(err.message))

(* ------------------------------------------------------------------ *)
(* executeCode                                                         *)
(* ------------------------------------------------------------------ *)
CodeTooLongMessage ==
  "Code too long. Maximum allowed: " \o ToString(maxCodeLength) \o " characters"

TooLong_unchecked(code) == FALSE

(* code.length > this.maxCodeLength *)
TooLong(code) == code.len > maxCodeLength

(* the elapsed time is not modelled; the unit suffix is *)
ExecutionTime == "<elapsed>" \o "ms"

(* the return of the try block *)
Returned(s, c, output) ==
  [s EXCEPT !.calls[c].st = "returned",
            !.calls[c].result =
               [output |-> Join(output), error |-> Null, executionTime |-> ExecutionTime,
                language |-> s.calls[c].req.language, success |-> TRUE]]

(* the catch block: reading err.message of a thrown null throws out of the
   catch block, and the promise of executeCode rejects *)
Caught(s, c, output, err) ==
  IF MessageThrows(err)
  THEN [s EXCEPT !.calls[c].st = "rejected"]
  ELSE [s EXCEPT !.calls[c].st = "returned",
                 !.calls[c].result =
                    [output |-> Join(output), error |-> err.message,
                     executionTime |-> ExecutionTime,
                     language |-> s.calls[c].req.language, success |-> FALSE]]

(* output = await <executor promise>: executeCode suspends and its
   continuation is queued behind the jobs already in the queue *)
Await(s, c, settled, job) ==
  [s EXCEPT !.calls[c].st = "awaiting", !.calls[c].settled = settled, !.q = Append(@, job)]

Enter(s, c, language) == [s EXCEPT !.invoked[c] = @ \cup {language}]

(* executeCode(code, language, input) from its entry to its first await or,
   when it throws before one, to its return *)
executeCode(c, r, s) ==
  LET s0 == [s EXCEPT !.calls[c].req = r]
      output == <<>>
  IN IF TooLong(r.code) THEN Caught(s0, c, output, ErrorObj(CodeTooLongMessage))
     ELSE CASE r.language = "javascript" ->
                 LET e == executeJavaScript(c, r.code.src, s0)
                 IN Await(e.s, c, e.settled, ExecuteCodeResume(c))
            [] r.language = "typescript" ->
                 LET e == executeTypeScript(c, r.code.src, s0)
                 IN Await(e.s, c, e.settled, ExecuteTypeScriptResume(c))
            [] r.language = "python" ->
                 Await(Enter(s0, c, "python"), c, Resolved(executePython(r.code, r.input)),
                       ExecuteCodeResume(c))
            [] r.language = "html" ->
                 Await(Enter(s0, c, "html"), c, Resolved(executeHTML(r.code)),
                       ExecuteCodeResume(c))
            [] r.language = "css" ->
                 Await(Enter(s0, c, "css"), c, Resolved(executeCSS(r.code)),
                       ExecuteCodeResume(c))
            [] r.language = "json" ->
                 Await(Enter(s0, c, "json"), c, executeJSON(r.code), ExecuteCodeResume(c))
            [] r.language = "markdown" ->
                 Await(Enter(s0, c, "markdown"), c, Resolved(executeMarkdown(r.code)),
                       ExecuteCodeResume(c))
            [] OTHER ->
                 Caught(s0, c, output, ErrorObj("Unsupported language: " \o r.language))

(* executeCode after its await: the executor's array is the local output, or
   the rejection is caught with the local output still empty *)
executeCodeResume(c, s) ==
  LET settled == s.calls[c].settled
  IN IF settled.ok
     THEN Returned(s, c, IF settled.js
                         THEN [i \in 1..Len(s.out[c]) |-> s.out[c][i].line]
                         ELSE settled.lines)
     ELSE Caught(s, c, <<>>, settled.err)

(* executeTypeScript after its await; executeCode, which awaits it, is queued
   when it settles *)
executeTypeScriptResume(c, s) ==
  LET settled == s.calls[c].settled
  IN [s EXCEPT !.calls[c].settled =
                  IF settled.ok THEN settled
                  ELSE [settled EXCEPT !.err = TypeScriptCatch(settled.err)],
               !.q = Append(@, ExecuteCodeResume(c))]

(* a promise callback: its statements; an exception rejects the derived
   promise and the rest of the chain, which has no rejection handler, is
   skipped; a loop never ends, since no timeout covers a promise job *)
runCallback(job, s) ==
  LET x == RunOps(Head(job.chain), job.c,
                  [s |-> [s EXCEPT !.ran[job.c] = @ + 1], end |-> "done", err |-> ErrorObj("")])
  IN IF x.end = "loop" THEN [x.s EXCEPT !.hung = TRUE]
     ELSE IF x.end = "done" /\ Len(job.chain) > 1
     THEN [x.s EXCEPT !.q = Append(@, Callback(job.c, Tail(job.chain)))]
     ELSE x.s

(* ------------------------------------------------------------------ *)
(* Actions: one per JavaScript job                                     *)
(* ------------------------------------------------------------------ *)
Become(s) ==
  /\ calls' = s.calls
  /\ sandboxConsole' = s.console
  /\ jsOutput' = s.out
  /\ sandboxN' = s.n
  /\ microtasks' = s.q
  /\ hung' = s.hung
  /\ invoked' = s.invoked
  /\ ran' = s.ran
  /\ UNCHANGED <<textVars, extraVars>>

(* a caller invokes codeRunner.executeCode *)
ExecuteCode(c) ==
  /\ ~hung
  /\ calls[c].st = "idle"
  /\ \E r \in Requests : Become(executeCode(c, r, State))

Dequeued == [State EXCEPT !.q = Tail(@)]

ResumeExecuteCode ==
  /\ ~hung
  /\ microtasks # <<>>
  /\ Head(microtasks).kind = "executeCode"
  /\ Become(executeCodeResume(Head(microtasks).c, Dequeued))

ResumeExecuteTypeScript ==
  /\ ~hung
  /\ microtasks # <<>>
  /\ Head(microtasks).kind = "executeTypeScript"
  /\ Become(executeTypeScriptResume(Head(microtasks).c, Dequeued))

RunCallback ==
  /\ ~hung
  /\ microtasks # <<>>
  /\ Head(microtasks).kind = "callback"
  /\ Become(runCallback(Head(microtasks), Dequeued))

Next ==
  \/ \E c \in CallIds : ExecuteCode(c)
  \/ ResumeExecuteCode
  \/ ResumeExecuteTypeScript
  \/ RunCallback

Spec == Init /\ [][Next]_vars

(* ------------------------------------------------------------------ *)
(* validateCode and formatCode on every text: the operations keep no    *)
(* state, so one call of each on every (code, language) is every call.  *)
(* ------------------------------------------------------------------ *)
Verdicts(code, language) ==
  IF language \notin {"javascript", "typescript"}
  THEN {[code |-> TRUE, stripped |-> TRUE]}
  ELSE {v \in [code : BOOLEAN, stripped : BOOLEAN] :
          StripTypeSyntax(code) = code => v.stripped = v.code}

TextInit ==
  /\ ExecInit
  /\ textCode \in Texts
  /\ textLanguage \in Languages
  /\ compiler \in Verdicts(textCode, textLanguage)
  /\ validation = NotCalled
  /\ formatted = NotCalled
  /\ reformatted = NotCalled
  /\ ExtraIdle

ValidateCode ==
  /\ validation = NotCalled
  /\ validation' = validateCode(textCode, textLanguage, compiler)
  /\ UNCHANGED <<execVars, extraVars, textCode, textLanguage, compiler, formatted, reformatted>>

FormatCode ==
  /\ formatted = NotCalled
  /\ formatted' = formatCode(textCode, textLanguage)
  /\ UNCHANGED <<execVars, extraVars, textCode, textLanguage, compiler, validation, reformatted>>

(* formatCode called again, on the code the first call returned *)
FormatAgain ==
  /\ formatted # NotCalled
  /\ formatted.kind = "return"
  /\ reformatted = NotCalled
  /\ reformatted' = formatCode(formatted.value.code, textLanguage)
  /\ UNCHANGED <<execVars, extraVars, textCode, textLanguage, compiler, validation, formatted>>

(* the input strings given with a text *)
Inputs == {"", "in"}

(* executeCode on the text, for the languages whose executor takes the code
   as data; what a text does as a script is not modelled *)
ExecuteText ==
  /\ ~hung
  /\ calls[1].st = "idle"
  /\ textLanguage \notin {"javascript", "typescript"}
  /\ \E input \in Inputs :
       Become(executeCode(1, [code |-> TextCode(textCode), language |-> textLanguage,
                              input |-> input], State))

TextNext == ValidateCode \/ FormatCode \/ FormatAgain \/ ExecuteText \/ ResumeExecuteCode

TextSpec == TextInit /\ [][TextNext]_vars

(* the event loop runs every queued promise job *)
FairSpec ==
  /\ Spec
  /\ WF_vars(ResumeExecuteCode)
  /\ WF_vars(ResumeExecuteTypeScript)
  /\ WF_vars(RunCallback)

(* ------------------------------------------------------------------ *)
(* Properties of executeCode                                           *)
(* ------------------------------------------------------------------ *)
Started(c) == calls[c].st # "idle"

HasReturned(c) == calls[c].st = "returned"

Lines(entries) == [i \in 1..Len(entries) |-> entries[i].line]

RanInSandbox(c) ==
  calls[c].req.language \in {"javascript", "typescript"} /\ ~TooLong(calls[c].req.code)

(* C1: executeCode never throws or rejects; whatever the submitted program
   throws, the call returns an ExecutionResult carrying the failure. *)
C1_NeverRejects == \A c \in CallIds : calls[c].st # "rejected"

(* C2: every returned ExecutionResult has success true exactly when its
   error is null. *)
C2_SuccessIffNoError ==
  \A c \in CallIds :
    HasReturned(c) => (calls[c].result.success <=> calls[c].result.error = Null)

(* C3: when a javascript or typescript program fails after emitting console
   lines, the result has success=false and its output is the newline join of
   exactly the lines captured before the fault. *)
C3_PartialOutputPreserved ==
  \A c \in CallIds :
    (HasReturned(c) /\ RanInSandbox(c) /\ ~calls[c].settled.ok)
      => /\ ~calls[c].result.success
         /\ calls[c].result.output = Join(Lines(calls[c].settled.captured))

(* C4: a line emitted by code of one call is never appended to the capture
   buffer of another call. *)
C4_BufferIsolation ==
  \A b \in CallIds : \A i \in DOMAIN jsOutput[b] : jsOutput[b][i].by = b

(* C5: two calls with identical (code, language, input) return identical
   output and success, whatever other calls ran before or between them. *)
C5_Determinism ==
  \A c1, c2 \in CallIds :
    (HasReturned(c1) /\ HasReturned(c2) /\ calls[c1].req = calls[c2].req)
      => /\ calls[c1].result.output = calls[c2].result.output
         /\ calls[c1].result.success = calls[c2].result.success

WritesBy(c) ==
  UNION {{<<b, i>> : i \in {j \in DOMAIN jsOutput[b] : jsOutput[b][j].by = c}} : b \in CallIds}

(* C6: once executeCode has returned the result of a javascript program, no
   code submitted in that call runs and nothing it does writes to a capture
   buffer. *)
C6_NoActivityAfterResult ==
  [][\A c \in CallIds :
       (HasReturned(c) /\ calls[c].req.language = "javascript")
         => (ran'[c] = ran[c] /\ WritesBy(c)' = WritesBy(c))]_vars

(* the five fields of an ExecutionResult *)
WellFormed(r) ==
  /\ DOMAIN r = {"output", "error", "executionTime", "language", "success"}
  /\ r.success \in BOOLEAN

NeverTerminates(src) == src = "console.log('a'); while(true){}"

(* C7: for every supported language and every code within maxCodeLength,
   executeCode eventually returns a well-formed ExecutionResult, and for a
   javascript program that never terminates the result has success=false and
   an error that indicates the timeout. *)
C7_Termination ==
  /\ \A c \in CallIds :
       (Started(c) /\ calls[c].req.language \in SupportedLanguages
                   /\ ~TooLong(calls[c].req.code))
         ~> (HasReturned(c) /\ WellFormed(calls[c].result))
  /\ [](\A c \in CallIds :
          (HasReturned(c) /\ calls[c].req.language = "javascript"
                          /\ NeverTerminates(calls[c].req.code.src))
            => (~calls[c].result.success /\ calls[c].result.error = TimeoutError.message))

(* C8: for every language, supported or not, a code longer than
   maxCodeLength is answered at once with success=false, the code-too-long
   error and empty output; no executor is entered and the sandbox is left as
   it was. *)
C8_LengthCheckFirst ==
  \A c \in CallIds :
    (Started(c) /\ calls[c].req.code.len > maxCodeLength)
      => /\ HasReturned(c)
         /\ calls[c].result.success = FALSE
         /\ calls[c].result.error = Str(CodeTooLongMessage)
         /\ calls[c].result.output = ""
         /\ invoked[c] = {}
         /\ ran[c] = 0
         /\ jsOutput[c] = <<>>
         /\ sandboxConsole # c

(* an over-long code has been submitted under an unsupported language and
   under javascript, and both calls are answered *)
C8_Witness ==
  \E c1, c2 \in CallIds :
    /\ HasReturned(c1) /\ calls[c1].req.code = CodeOverLimit
    /\ calls[c1].req.language = "ruby"
    /\ HasReturned(c2) /\ calls[c2].req.code = CodeOverLimit
    /\ calls[c2].req.language = "javascript"

(* ------------------------------------------------------------------ *)
(* Properties of the three operations on one (code, language)          *)
(* ------------------------------------------------------------------ *)
Unsupported == textLanguage \notin SupportedLanguages

UnsupportedMessage == "Unsupported language: " \o textLanguage

ExecuteFailsUnsupported ==
  Started(1) => /\ HasReturned(1)
                /\ calls[1].result.success = FALSE
                /\ calls[1].result.error = Str(UnsupportedMessage)
                /\ calls[1].result.output = ""
                /\ invoked[1] = {}
                /\ ran[1] = 0
                /\ sandboxConsole = 0

ValidateFailsUnsupported ==
  validation # NotCalled => /\ validation.kind = "return"
                            /\ validation.value.isValid = FALSE
                            /\ validation.value.errors = <<UnsupportedMessage>>

(* C9, as claimed: for a language outside the seven supported ones, Execute,
   Validate and Format each fail with an unsupported-language error and do no
   partial work; Format gives an error, not a FormatResult. *)
C9_AllThreeFail ==
  Unsupported => /\ ExecuteFailsUnsupported
                 /\ ValidateFailsUnsupported
                 /\ formatted # NotCalled => formatted.kind = "throw"

(* C9, amended: for a language outside the seven supported ones, Execute (on
   a code within maxCodeLength) and Validate fail with the unsupported-language
   error and do no partial work, while Format does not fail: it returns the
   code unchanged with empty changes. *)
C9_ExecuteValidateFailFormatIdentity ==
  Unsupported => /\ ExecuteFailsUnsupported
                 /\ ValidateFailsUnsupported
                 /\ formatted # NotCalled
                      => /\ formatted.kind = "return"
                         /\ formatted.value = [code |-> textCode, changes |-> <<>>]

(* the three operations have answered for a non-empty code in an unsupported
   language *)
C9_Witness ==
  /\ Unsupported
  /\ textCode # <<>>
  /\ HasReturned(1)
  /\ validation # NotCalled
  /\ formatted # NotCalled

(* C10: validateCode never throws; for a language outside the supported set
   its result has isValid=false and exactly one errors entry, which names the
   language. *)
C10_ValidateNeverThrows ==
  validation # NotCalled
    => /\ validation.kind = "return"
       /\ validation.value.isValid \in BOOLEAN
       /\ Unsupported => /\ validation.value.isValid = FALSE
                         /\ Len(validation.value.errors) = 1
                         /\ validation.value.errors[1] = "Unsupported language: " \o textLanguage

(* validateCode has answered for an unsupported language, and for a
   javascript code the compiler rejects *)
C10_Witness ==
  /\ validation # NotCalled
  /\ \/ Unsupported
     \/ textLanguage = "javascript" /\ ~compiler.code

(* ------------------------------------------------------------------ *)
(* Properties of validateCode                                          *)
(* ------------------------------------------------------------------ *)
Validated == validation # NotCalled /\ validation.kind = "return"

(* C11: for every language and every code, the result of validateCode has
   isValid=false whenever its errors are non-empty, and is never made invalid
   by warnings alone: with no errors, isValid is true. *)
C11_ErrorsInvalidate ==
  Validated => /\ validation.value.errors # <<>> => validation.value.isValid = FALSE
               /\ validation.value.errors = <<>> => validation.value.isValid = TRUE

(* validateCode has answered for a typescript code the compiler accepts once
   stripped, whose braces do not pair *)
C11_Witness ==
  /\ Validated
  /\ textLanguage = "typescript"
  /\ compiler.stripped
  /\ validation.value.errors = <<"Mismatched braces in TypeScript code">>

Permissive == {"html", "css", "python", "markdown"}

(* the warnings the permissive validators can give *)
Findings ==
  CASE textLanguage = "html" -> {"Missing HTML structure tags", "Possible unclosed HTML tags"}
    [] textLanguage = "css" -> {"Missing CSS braces"}
    [] textLanguage = "python" -> {"Python validation not yet implemented"}
    [] OTHER -> {}

(* C12: for html, css, python and markdown, validateCode answers isValid=true
   with no errors for every code; the heuristic findings appear in warnings
   only, and python always warns that its validation is unimplemented. *)
C12_PermissiveValidators ==
  (Validated /\ textLanguage \in Permissive)
    => /\ validation.value.isValid = TRUE
       /\ validation.value.errors = <<>>
       /\ \A i \in DOMAIN validation.value.warnings : validation.value.warnings[i] \in Findings
       /\ textLanguage = "python"
            => validation.value.warnings = <<"Python validation not yet implemented">>
       /\ (textLanguage = "css" /\ ~Includes(textCode, <<"{">>))
            => validation.value.warnings = <<"Missing CSS braces">>

(* validateCode has answered for a css code without a brace pair *)
C12_Witness ==
  /\ Validated
  /\ textLanguage = "css"
  /\ textCode # <<>>
  /\ ~Includes(textCode, <<"}">>)

(* ------------------------------------------------------------------ *)
(* Properties of formatCode                                            *)
(* ------------------------------------------------------------------ *)
Formatted == formatted # NotCalled /\ formatted.kind = "return"

Reformatted == reformatted # NotCalled /\ reformatted.kind = "return"

(* C13: for json, html, css and javascript and every code formatCode
   succeeds on, formatting the formatted code again reports no change: the
   changes of the second pass are empty. *)
C13_SecondPassNoChanges ==
  (Reformatted /\ textLanguage \in {"json", "html", "css", "javascript"})
    => reformatted.value.changes = <<>>

(* C14: for every language and every code formatCode succeeds on, the
   formatted code is a fixed point: formatting it again returns it as it is. *)
C14_FormattedIsFixedPoint ==
  Reformatted => reformatted.value.code = formatted.value.code

(* C15: formatCode throws exactly when the language is json and the code is
   not parseable JSON; for every other (language, code) it returns a
   FormatResult, and outside javascript, json, html and css the result is the
   identity: the code unchanged and no changes. *)
C15_FormatThrowsOnlyOnBadJSON ==
  formatted # NotCalled
    => /\ formatted.kind \in {"throw", "return"}
       /\ formatted.kind = "throw" <=> (textLanguage = "json" /\ ~ParseJSON(textCode).ok)
       /\ textLanguage \notin {"javascript", "json", "html", "css"}
            => formatted = [kind |-> "return",
                            value |-> [code |-> textCode, changes |-> <<>>]]

(* formatCode has thrown on a json code that does not parse *)
C15_Witness ==
  /\ formatted # NotCalled
  /\ formatted.kind = "throw"
  /\ textLanguage = "json"
  /\ textCode # <<>>

(* ------------------------------------------------------------------ *)
(* Properties of the executors that take the code as data              *)
(* ------------------------------------------------------------------ *)
(* the output expected of the executors without a runtime: the source between
   a fixed head and a fixed tail (the fence written with apostrophes) *)
Echo(language, src, input) ==
  CASE language = "python" ->
         "Python execution is not yet implemented in this demo version.\nCode received:\n"
           \o src \o "\nInput received: " \o input
    [] language = "html" ->
         "HTML Preview:\n'''html\n" \o src
           \o "\n'''\n\nNote: This is a preview. To see the rendered result, copy the HTML to a file and open it in a browser."
    [] language = "css" ->
         "CSS Code:\n'''css\n" \o src
           \o "\n'''\n\nNote: This is a preview. To see the rendered result, copy the CSS to a file and link it to an HTML document."
    [] language = "markdown" ->
         "Markdown Preview:\n'''markdown\n" \o src
           \o "\n'''\n\nNote: This is a preview. To see the rendered result, copy the markdown to a file and open it in a markdown viewer."

(* C16: for python, html, css and markdown, every code within maxCodeLength
   and every input, executeCode returns success=true and error=null, and the
   output holds the source verbatim: after the not-yet-implemented notice and
   before the echoed input for python, inside a fenced block followed by a
   usage note for html, css and markdown. *)
C16_StubExecutorsSucceed ==
  \A c \in CallIds :
    (Started(c) /\ calls[c].req.language \in {"python", "html", "css", "markdown"}
                /\ ~TooLong(calls[c].req.code))
      => /\ ~HasReturned(c) => calls[c].st = "awaiting"
         /\ HasReturned(c)
              => /\ calls[c].result.success = TRUE
                 /\ calls[c].result.error = Null
                 /\ calls[c].result.output
                      = Echo(calls[c].req.language, calls[c].req.code.src, calls[c].req.input)

(* executeCode has returned for a non-empty python code given with an input *)
C16_Witness ==
  /\ HasReturned(1)
  /\ calls[1].req.language = "python"
  /\ calls[1].req.input = "in"
  /\ calls[1].req.code.len > 0

(* the json calls that reached the executor *)
JsonCall(c) ==
  HasReturned(c) /\ calls[c].req.language = "json" /\ ~TooLong(calls[c].req.code)

JsonOutput(c) ==
  calls[c].req.code.json.ok
    => /\ calls[c].result.success = TRUE
       /\ calls[c].result.error = Null
       /\ calls[c].result.output
            = "Valid JSON:\n'''json\n" \o calls[c].req.code.json.text \o "\n'''"

(* C17, as claimed: executeCode on a json code that does not parse returns
   success=false with error equal to the parser's own message, nothing added;
   on a code that parses it returns success=true with the indented
   re-serialization in the output. *)
C17_ParserMessageVerbatim ==
  \A c \in CallIds :
    JsonCall(c)
      => /\ JsonOutput(c)
         /\ ~calls[c].req.code.json.ok
              => /\ calls[c].result.success = FALSE
                 /\ calls[c].result.error = Str(calls[c].req.code.json.message)

(* C17, amended: executeCode on a json code that does not parse returns
   success=false, empty output and an error made of the prefix
   "Invalid JSON: " followed by the parser's message; on a code that parses
   it returns success=true with the indented re-serialization in the output. *)
C17_ParserMessagePrefixed ==
  \A c \in CallIds :
    JsonCall(c)
      => /\ JsonOutput(c)
         /\ ~calls[c].req.code.json.ok
              => /\ calls[c].result.success = FALSE
                 /\ calls[c].result.output = ""
                 /\ calls[c].result.error
                      = Str("Invalid JSON: " \o calls[c].req.code.json.message)

(* executeCode has returned for a json text that does not parse *)
C17_Witness ==
  /\ JsonCall(1)
  /\ textLanguage = "json"
  /\ textCode # <<>>
  /\ ~ParseJSON(textCode).ok

(* ------------------------------------------------------------------ *)
(* Properties of the json validator and formatter                      *)
(* ------------------------------------------------------------------ *)
MalformedJSON == textLanguage = "json" /\ ~ParseJSON(textCode).ok

(* C18: for a malformed json code, validateCode returns isValid=false with
   exactly one errors entry, equal to the parser's message, and the error
   formatCode throws carries the parser's message in full, unaltered: the
   thrown message ends with it, after the prefixes of formatJSON and
   formatCode. *)
C18_ParseFailureSurfaced ==
  MalformedJSON
    => /\ validation # NotCalled
            => /\ validation.kind = "return"
               /\ validation.value.isValid = FALSE
               /\ validation.value.errors = <<ParseJSON(textCode).message>>
       /\ formatted # NotCalled
            => /\ formatted.kind = "throw"
               /\ formatted.value.message
                    = Str("Code formatting failed: Invalid JSON: " \o ParseJSON(textCode).message)

(* validateCode and formatCode have both answered for a malformed json code *)
C18_Witness ==
  /\ MalformedJSON
  /\ textCode # <<>>
  /\ validation # NotCalled
  /\ formatted # NotCalled

(* ------------------------------------------------------------------ *)
(* Properties of the sandbox                                           *)
(* ------------------------------------------------------------------ *)
(* names of primitives for the filesystem, process control and the network *)
Forbidden == {"require", "process", "fetch"}

(* the sources that refer to such a primitive or evaluate a string as code *)
RefersToForbidden(src) ==
  src \in {"require('fs')", "eval('1')", "Promise.resolve().then(() => process.exit())"}

RuntimeFaults ==
  {Str(ReferenceError(name).message.s) : name \in Forbidden} \cup {EvalError.message}

(* C19: the global namespace given to executed javascript holds no primitive
   for filesystem access, process control or network I/O, and a program that
   refers to such a primitive, or evaluates a string as code, never succeeds:
   executeCode returns success=false with a runtime-fault error. *)
C19_SandboxIsolation ==
  /\ SandboxGlobals \cap Forbidden = {}
  /\ \A c \in CallIds :
       (HasReturned(c) /\ calls[c].req.language = "javascript"
                       /\ RefersToForbidden(calls[c].req.code.src))
         => /\ calls[c].result.success = FALSE
            /\ calls[c].result.error \in RuntimeFaults

(* the program wrote "<input>" where it logs what it read from input *)
ReadsInput(src) == src = "console.log(input)"

(* C20: the input string given to Execute for javascript or typescript is
   bound in the sandbox: every call of a program that logs its input succeeds
   and outputs the input of that call, so two calls with the same code and
   different inputs observe their respective input. *)
C20_InputIsBound ==
  \A c \in CallIds :
    (HasReturned(c) /\ calls[c].req.language \in {"javascript", "typescript"}
                    /\ ReadsInput(calls[c].req.code.src))
      => /\ calls[c].result.success = TRUE
         /\ calls[c].result.output = calls[c].req.input

(* ------------------------------------------------------------------ *)
(* GET /templates/:language (routes/code.js)                           *)
(* ------------------------------------------------------------------ *)
MaxRequests == 2

(* the keys of the templates object literal *)
TemplateKeys == {"javascript", "typescript", "python", "html"}

(* the template of a key: its name and description; its code is a literal *)
Template(key) ==
  CASE key = "javascript" ->
         [name |-> "JavaScript Function", description |-> "Basic JavaScript function template"]
    [] key = "typescript" ->
         [name |-> "TypeScript Interface",
          description |-> "TypeScript interface and function template"]
    [] key = "python" -> [name |-> "Python Class", description |-> "Python class template"]
    [] key = "html" -> [name |-> "HTML Page", description |-> "Basic HTML page template"]

(* property names an object literal inherits from Object.prototype; each
   holds a function or an object there *)
InheritedKeys == {"constructor", "toString", "hasOwnProperty", "valueOf", "__proto__"}

(* the :language parameters requested *)
TemplateParams == Languages \cup {"constructor", "toString"}

(* templates[language]: an own property, else the prototype's, else
   undefined.  An inherited value is truthy; res.json leaves a function out
   of the body. *)
TemplateLookup(language) ==
  IF language \in TemplateKeys
  THEN [found |-> TRUE, own |-> TRUE, data |-> Template(language)]
  ELSE IF language \in InheritedKeys
  THEN [found |-> TRUE, own |-> FALSE, data |-> [name |-> "", description |-> ""]]
  ELSE [found |-> FALSE, own |-> FALSE, data |-> [name |-> "", description |-> ""]]

(* the handler: 404 when the looked-up value is falsy *)
TemplateResponse(language) ==
  LET template == TemplateLookup(language)
  IN IF ~template.found
     THEN [language |-> language, status |-> 404, success |-> FALSE,
           error |-> "Language not supported", own |-> FALSE,
           data |-> [name |-> "", description |-> ""]]
     ELSE [language |-> language, status |-> 200, success |-> TRUE, error |-> "",
           own |-> template.own, data |-> template.data]

GetTemplate ==
  /\ Len(responses) < MaxRequests
  /\ \E language \in TemplateParams :
       responses' = Append(responses, TemplateResponse(language))
  /\ UNCHANGED <<execVars, textVars, storeVars, aiVars, retryVars, editorVars>>

TemplateSpec == Init /\ [][GetTemplate]_vars

(* C21: GetTemplate returns the canned snippet when a template is registered
   for the requested language, and answers 404 with success=false for every
   other language string: supported languages without a template, unknown
   names, and names of inherited object properties. *)
C21_TemplateOrNotFound ==
  \A i \in DOMAIN responses :
    LET r == responses[i]
    IN IF r.language \in TemplateKeys
       THEN r.status = 200 /\ r.success = TRUE /\ r.data = Template(r.language)
       ELSE r.status = 404 /\ r.success = FALSE

(* ------------------------------------------------------------------ *)
(* Properties of the capture buffer and of the value formatter         *)
(* ------------------------------------------------------------------ *)
(* the console calls of a sequence of statements, as lines in call order *)
ConsoleLines(ops) ==
  [i \in DOMAIN ops |-> LevelPrefix(ops[i].level) \o formatOutput(ops[i].arg)]

RECURSIVE ChainLines(_)
ChainLines(chain) ==
  IF chain = <<>> THEN <<>> ELSE ConsoleLines(Head(chain)) \o ChainLines(Tail(chain))

OnlyLogs(ops) == \A i \in DOMAIN ops : ops[i].op = "log"

(* a script that runs to completion: console calls, possibly followed by one
   promise chain whose callbacks make console calls, and a trailing expression *)
Completing(src) ==
  LET ops == Program(src).ops
      n == Len(ops)
  IN /\ n > 0
     /\ OnlyLogs(SubSeq(ops, 1, n - 1))
     /\ \/ ops[n].op = "log"
        \/ ops[n].op = "then" /\ \A k \in DOMAIN ops[n].chain : OnlyLogs(ops[n].chain[k])

(* one line per console call of the program, in call order, then the value *)
ExpectedLines(src) ==
  LET ops == Program(src).ops
      n == Len(ops)
      value == Program(src).value
  IN (IF ops[n].op = "then"
      THEN ConsoleLines(SubSeq(ops, 1, n - 1)) \o ChainLines(ops[n].chain)
      ELSE ConsoleLines(ops))
       \o (IF value # Undefined THEN <<formatOutput(value)>> ELSE <<>>)

(* C22: the output of a completed javascript run is the newline join of one
   line per console call of the program, in call order, log lines unprefixed
   and the other levels prefixed, with the formatted value of the trailing
   expression as the last line: console.log("hi"); 2+2 gives "hi\n4" with
   success=true. *)
C22_CaptureOrder ==
  \A c \in CallIds :
    (HasReturned(c) /\ calls[c].req.language = "javascript"
                    /\ Completing(calls[c].req.code.src))
      => /\ calls[c].result.success = TRUE
         /\ calls[c].result.output = Join(ExpectedLines(calls[c].req.code.src))

(* a script that is one expression: nothing runs but its evaluation *)
ExpressionOnly(src) == src \in JsSources /\ Program(src).ops = <<>>

(* C23: the value formatter is total: whatever the value of the script's
   trailing expression (null, a primitive, an object, an object that cannot
   be serialized, with or without a string conversion), formatOutput returns
   a string and does not throw, so the run succeeds and its output is that
   string; null gives "null" and an object that cannot be serialized gives
   its string coercion. *)
C23_FormatterTotal ==
  \A c \in CallIds :
    (HasReturned(c) /\ calls[c].req.language = "javascript"
                    /\ ExpressionOnly(calls[c].req.code.src))
      => /\ calls[c].result.success = TRUE
         /\ calls[c].result.error # ToStringError.message
         /\ Program(calls[c].req.code.src).value = Null => calls[c].result.output = "null"
         /\ Program(calls[c].req.code.src).value.t = "cyclic"
              => calls[c].result.output = Program(calls[c].req.code.src).value.s

(* ------------------------------------------------------------------ *)
(* Properties of the javascript and json formatters                    *)
(* ------------------------------------------------------------------ *)
(* the code, with the white space at its ends removed, ends with ; or } *)
Terminated(text) ==
  \E i \in DOMAIN text :
    /\ text[i] \in {";", "}"}
    /\ \A j \in (i + 1)..Len(text) : text[j] \in SpaceChars

(* C24: the javascript formatter appends one ';' to the code and records
   exactly one change entry exactly when the trimmed code ends neither with
   ';' nor with '}'; otherwise it returns the code unchanged with no changes. *)
C24_SemicolonAppended ==
  (formatted # NotCalled /\ textLanguage = "javascript")
    => /\ formatted.kind = "return"
       /\ IF Terminated(textCode)
          THEN formatted.value = [code |-> textCode, changes |-> <<>>]
          ELSE /\ formatted.value.code = textCode \o <<";">>
               /\ Len(formatted.value.changes) = 1

(* formatCode has answered for a javascript code that ends with white space
   after its terminator, and left it unchanged *)
C24_Witness ==
  /\ Formatted
  /\ textLanguage = "javascript"
  /\ textCode # <<>>
  /\ textCode[Len(textCode)] \in SpaceChars
  /\ formatted.value.changes = <<>>

JsonFormatted == Formatted /\ textLanguage = "json"

RoundTrip ==
  LET again == ParseJSON(formatted.value.code)
  IN /\ again.ok
     /\ again.value = ParseJSON(textCode).value
     /\ formatted.value.changes = <<"Formatted JSON with proper indentation">>

(* C25, as claimed: for every code that parses as JSON to a value v, parsing
   the code formatCode returns for json gives a value equal to v, and changes
   is ["Formatted JSON with proper indentation"]. *)
C25_RoundTripEveryCode == JsonFormatted => RoundTrip

(* C25, amended: for every code that parses as JSON to a value v whose
   numbers are all finite, parsing the code formatCode returns for json gives
   a value equal to v, and changes is
   ["Formatted JSON with proper indentation"]. *)
C25_RoundTripFinite ==
  (JsonFormatted /\ ParseJSON(textCode).value.t # "infinity") => RoundTrip

(* formatCode has answered for a json number that it writes differently *)
C25_Witness ==
  /\ JsonFormatted
  /\ ParseJSON(textCode).value.t = "number"
  /\ formatted.value.code # textCode
  /\ Len(formatted.value.code) > 1

(* C26: every result validateCode returns is a ValidationResult with its
   three fields, isValid (a boolean), errors and warnings (sequences), for
   every language, an unsupported one included. *)
C26_ValidationResultShape ==
  Validated
    => /\ DOMAIN validation.value = {"isValid", "errors", "warnings"}
       /\ validation.value.isValid \in BOOLEAN
       /\ DOMAIN validation.value.errors = 1..Len(validation.value.errors)
       /\ DOMAIN validation.value.warnings = 1..Len(validation.value.warnings)


(* ------------------------------------------------------------------ *)
(* The conversation store (services/memory.js, routes/memory.js)       *)
(* ------------------------------------------------------------------ *)
MaxDbCalls == 3

(* uuidv4(): a value no earlier call returned *)
uuidv4 == ToString(uuids + 1)

(* the conversationId of a request body or the :id of a path: absent,
   'new', an id the service has issued or may issue, or any other string *)
SuppliedIds == {"", "new", "ghost"} \cup {ToString(n) : n \in 1..MaxDbCalls}

(* createConversation: the id is drawn, the INSERT is handed to the database *)
CreateConversation ==
  /\ Len(dbCalls) < MaxDbCalls
  /\ dbCalls' = Append(dbCalls, [op |-> "createConversation", id |-> uuidv4, st |-> "insert"])
  /\ uuids' = uuids + 1
  /\ UNCHANGED <<dbConversations, dbMessages>>
  /\ UNCHANGED <<execVars, textVars, routeVars, aiVars, retryVars, editorVars>>

(* saveMessage up to its first await: createConversation when the id is
   absent or 'new', else the INSERT of the message *)
SaveMessage ==
  /\ Len(dbCalls) < MaxDbCalls
  /\ \E conversationId \in SuppliedIds :
       IF conversationId \in {"", "new"}
       THEN /\ dbCalls' = Append(dbCalls, [op |-> "saveMessage", id |-> uuidv4, st |-> "create"])
            /\ uuids' = uuids + 1
       ELSE /\ dbCalls' = Append(dbCalls, [op |-> "saveMessage", id |-> conversationId,
                                           st |-> "insert"])
            /\ UNCHANGED uuids
  /\ UNCHANGED <<dbConversations, dbMessages>>
  /\ UNCHANGED <<execVars, textVars, routeVars, aiVars, retryVars, editorVars>>

(* deleteConversation up to its first await *)
DeleteConversation ==
  /\ Len(dbCalls) < MaxDbCalls
  /\ \E id \in SuppliedIds \ {""} :
       dbCalls' = Append(dbCalls, [op |-> "deleteConversation", id |-> id, st |-> "messages"])
  /\ UNCHANGED <<dbConversations, dbMessages, uuids>>
  /\ UNCHANGED <<execVars, textVars, routeVars, aiVars, retryVars, editorVars>>

(* the database runs the statement a call awaits, and the call goes on to
   its next await or returns *)
DbRun ==
  \E k \in DOMAIN dbCalls :
    LET call == dbCalls[k]
    IN /\ call.st # "returned"
       /\ CASE call.op = "createConversation" ->
                 /\ dbConversations' = dbConversations \cup {call.id}
                 /\ dbCalls' = [dbCalls EXCEPT ![k].st = "returned"]
                 /\ UNCHANGED <<dbMessages, uuids>>
            [] call.op = "saveMessage" /\ call.st = "create" ->
                 /\ dbConversations' = dbConversations \cup {call.id}
                 /\ dbCalls' = [dbCalls EXCEPT ![k].st = "insert"]
                 /\ UNCHANGED <<dbMessages, uuids>>
            [] call.op = "saveMessage" /\ call.st = "insert" ->
                 /\ dbMessages' = dbMessages \cup {[id |-> uuidv4, conversation_id |-> call.id]}
                 /\ uuids' = uuids + 1
                 /\ dbCalls' = [dbCalls EXCEPT ![k].st = "returned"]
                 /\ UNCHANGED dbConversations
            [] call.op = "deleteConversation" /\ call.st = "messages" ->
                 /\ dbMessages' = {m \in dbMessages : m.conversation_id # call.id}
                 /\ dbCalls' = [dbCalls EXCEPT ![k].st = "conversations"]
                 /\ UNCHANGED <<dbConversations, uuids>>
            [] call.op = "deleteConversation" /\ call.st = "conversations" ->
                 /\ dbConversations' = dbConversations \ {call.id}
                 /\ dbCalls' = [dbCalls EXCEPT ![k].st = "returned"]
                 /\ UNCHANGED <<dbMessages, uuids>>
       /\ UNCHANGED <<execVars, textVars, routeVars, aiVars, retryVars, editorVars>>

StoreNext == CreateConversation \/ SaveMessage \/ DeleteConversation \/ DbRun

StoreSpec == Init /\ [][StoreNext]_vars

(* every call has returned *)
StoreQuiet == \A k \in DOMAIN dbCalls : dbCalls[k].st = "returned"

(* C27: referential integrity of the conversation store: once the calls of
   an interleaving of createConversation, saveMessage and deleteConversation
   have returned, every stored message has a conversation_id that is the id
   of a stored conversation, and no message is stored under an id whose
   deleteConversation has returned. *)
C27_ReferentialIntegrity ==
  StoreQuiet
    => /\ \A m \in dbMessages : m.conversation_id \in dbConversations
       /\ \A k \in DOMAIN dbCalls :
            dbCalls[k].op = "deleteConversation"
              => \A m \in dbMessages : m.conversation_id # dbCalls[k].id


(* ------------------------------------------------------------------ *)
(* MultiAIService.generateResponse (services/memory.js)                *)
(* ------------------------------------------------------------------ *)
(* the providers initializeProviders can configure, in the order it adds
   them, which is the order of Object.keys(this.providers) *)
ProviderKeys == <<"openai", "deepseek", "grok", "gemini", "claude", "mistral">>

ProviderNames == {ProviderKeys[i] : i \in DOMAIN ProviderKeys}

fallbackProviders == <<"openai", "deepseek", "gemini", "grok">>

(* the constructor: the providers whose api key is set *)
Construct ==
  /\ aiSt = "new"
  /\ providers' \in SUBSET ProviderNames
  /\ aiSt' = "idle"
  /\ UNCHANGED <<provider, aiIndex, aiInvoked, aiResponse>>
  /\ UNCHANGED <<execVars, textVars, routeVars, storeVars, retryVars, editorVars>>

(* the first index of the sequence from position from on whose name is
   among names, 0 when there is none *)
FirstFrom(keys, from, names) ==
  LET found == {i \in DOMAIN keys : i >= from /\ keys[i] \in names}
  IN IF found = {} THEN 0 ELSE CHOOSE i \in found : \A j \in found : i <= j

(* the loop of the catch block from position from of Object.keys: the next
   configured provider other than provider is called, or the call throws
   'All AI providers failed' *)
CatchLoop(from) ==
  LET i == FirstFrom(ProviderKeys, from, providers \ {provider'})
  IN IF i = 0
     THEN /\ aiSt' = "thrown"
          /\ UNCHANGED <<aiIndex, aiInvoked>>
     ELSE /\ aiSt' = "catch"
          /\ aiIndex' = i
          /\ aiInvoked' = Append(aiInvoked, [name |-> ProviderKeys[i], ok |-> "pending"])

(* generateResponse up to its first await *)
GenerateResponse ==
  /\ aiSt = "idle"
  /\ provider' \in ProviderNames
  /\ LET f == FirstFrom(fallbackProviders, 1, providers)
     IN IF provider' \in providers
        THEN /\ aiSt' = "try"
             /\ aiInvoked' = Append(aiInvoked, [name |-> provider', ok |-> "pending"])
             /\ UNCHANGED aiIndex
        ELSE IF f # 0
        THEN /\ aiSt' = "try"
             /\ aiInvoked' = Append(aiInvoked, [name |-> fallbackProviders[f], ok |-> "pending"])
             /\ UNCHANGED aiIndex
        ELSE CatchLoop(1)
  /\ UNCHANGED <<providers, aiResponse>>
  /\ UNCHANGED <<execVars, textVars, routeVars, storeVars, retryVars, editorVars>>

(* the awaited callProvider settles: its response is returned, or its
   rejection is caught and the catch block's loop goes on *)
CallProviderSettles ==
  /\ aiSt \in {"try", "catch"}
  /\ \E ok \in BOOLEAN :
       LET n == Len(aiInvoked)
           settled == [aiInvoked EXCEPT ![n].ok = IF ok THEN "resolved" ELSE "rejected"]
           i == FirstFrom(ProviderKeys, IF aiSt = "try" THEN 1 ELSE aiIndex + 1,
                          providers \ {provider})
       IN IF ok
          THEN /\ aiSt' = "returned"
               /\ aiResponse' = aiInvoked[n].name
               /\ aiInvoked' = settled
               /\ UNCHANGED aiIndex
          ELSE IF i = 0
          THEN /\ aiSt' = "thrown"
               /\ aiInvoked' = settled
               /\ UNCHANGED <<aiIndex, aiResponse>>
          ELSE /\ aiSt' = "catch"
               /\ aiIndex' = i
               /\ aiInvoked' = Append(settled, [name |-> ProviderKeys[i], ok |-> "pending"])
               /\ UNCHANGED aiResponse
  /\ UNCHANGED <<providers, provider>>
  /\ UNCHANGED <<execVars, textVars, routeVars, storeVars, retryVars, editorVars>>

AiNext == Construct \/ GenerateResponse \/ CallProviderSettles

AiSpec == Init /\ [][AiNext]_vars

(* C28: provider fallback in generateResponse: the preferred or default
   provider is invoked first when it is configured; a returned response is
   that of the first invocation that succeeded; within the call no provider
   is invoked more than once; and the call throws only after every
   configured provider has been invoked and has failed. *)
C28_ProviderFallback ==
  /\ (provider \in providers /\ aiInvoked # <<>>) => aiInvoked[1].name = provider
  /\ aiSt = "returned"
       => /\ aiInvoked[Len(aiInvoked)] = [name |-> aiResponse, ok |-> "resolved"]
          /\ \A i \in 1..(Len(aiInvoked) - 1) : aiInvoked[i].ok = "rejected"
  /\ \A i, j \in DOMAIN aiInvoked : aiInvoked[i].name = aiInvoked[j].name => i = j
  /\ aiSt = "thrown"
       => /\ \A name \in providers : \E i \in DOMAIN aiInvoked : aiInvoked[i].name = name
          /\ \A i \in DOMAIN aiInvoked : aiInvoked[i].ok = "rejected"


(* ------------------------------------------------------------------ *)
(* ApiService.retryRequest (frontend services/api.js)                  *)
(* ------------------------------------------------------------------ *)
MaxRetries == 3

(* the maxRetries and delay arguments of the calls *)
RetryCounts == -1..MaxRetries

Delays == {0, 1, 100, 500, 1000, 2000}

RECURSIVE Pow2(_)
Pow2(n) == IF n = 0 THEN 1 ELSE 2 * Pow2(n - 1)

(* what the call settles with when it falls out of its loop *)
ResolvedUndefined == [t |-> "undefined", n |-> 0]

(* retryRequest up to its first await: fn is invoked when the loop is
   entered, else the function returns without a value *)
RetryRequest ==
  /\ retrySt = "idle"
  /\ maxRetries' \in RetryCounts
  /\ delay' \in Delays
  /\ retryI' = 0
  /\ IF 0 < maxRetries'
     THEN /\ retrySt' = "calling"
          /\ attempts' = <<[n |-> 1, ok |-> "pending"]>>
          /\ UNCHANGED retryResult
     ELSE /\ retrySt' = "resolved"
          /\ retryResult' = ResolvedUndefined
          /\ UNCHANGED attempts
  /\ UNCHANGED waits
  /\ UNCHANGED <<execVars, textVars, routeVars, storeVars, aiVars, editorVars>>

(* the awaited fn() settles: its value is returned, or in the catch block
   its error is rethrown on the last round and a timeout is set otherwise *)
FnSettles ==
  /\ retrySt = "calling"
  /\ \E ok \in BOOLEAN :
       LET n == Len(attempts)
       IN /\ attempts' = [attempts EXCEPT ![n].ok = IF ok THEN "resolved" ELSE "rejected"]
          /\ IF ok
             THEN /\ retrySt' = "resolved"
                  /\ retryResult' = [t |-> "value", n |-> n]
                  /\ UNCHANGED waits
             ELSE IF retryI = maxRetries - 1
             THEN /\ retrySt' = "rejected"
                  /\ retryResult' = [t |-> "error", n |-> n]
                  /\ UNCHANGED waits
             ELSE /\ retrySt' = "waiting"
                  /\ waits' = Append(waits, delay * Pow2(retryI))
                  /\ UNCHANGED retryResult
  /\ UNCHANGED <<maxRetries, delay, retryI>>
  /\ UNCHANGED <<execVars, textVars, routeVars, storeVars, aiVars, editorVars>>

(* the timeout fires: i++, the loop condition, and the next fn() *)
TimeoutFires ==
  /\ retrySt = "waiting"
  /\ retryI' = retryI + 1
  /\ IF retryI + 1 < maxRetries
     THEN /\ retrySt' = "calling"
          /\ attempts' = Append(attempts, [n |-> Len(attempts) + 1, ok |-> "pending"])
          /\ UNCHANGED retryResult
     ELSE /\ retrySt' = "resolved"
          /\ retryResult' = ResolvedUndefined
          /\ UNCHANGED attempts
  /\ UNCHANGED <<maxRetries, delay, waits>>
  /\ UNCHANGED <<execVars, textVars, routeVars, storeVars, aiVars, editorVars>>

RetryNext == RetryRequest \/ FnSettles \/ TimeoutFires

RetrySpec == Init /\ [][RetryNext]_vars

(* C29: a settled retryRequest(fn, maxRetries, delay) has invoked fn at
   least once and at most maxRetries times; it resolves only with the
   value of a successful attempt, which is its last, every earlier one having
   failed; the wait after failed attempt i is delay*2^i; and it rejects only
   after maxRetries failures, with the error of the last attempt. *)
C29_RetryRequest ==
  /\ retrySt \in {"resolved", "rejected"}
       => /\ Len(attempts) >= 1
          /\ Len(attempts) <= maxRetries
          /\ \A k \in 1..(Len(attempts) - 1) : attempts[k].ok = "rejected"
  /\ retrySt = "resolved"
       => /\ retryResult.t = "value"
          /\ retryResult.n = Len(attempts)
          /\ attempts[retryResult.n].ok = "resolved"
  /\ retrySt = "rejected"
       => /\ Len(attempts) = maxRetries
          /\ attempts[Len(attempts)].ok = "rejected"
          /\ retryResult = [t |-> "error", n |-> Len(attempts)]
  /\ \A k \in DOMAIN waits : waits[k] = delay * Pow2(k - 1)
  /\ retrySt \in {"calling", "resolved", "rejected"} /\ attempts # <<>>
       => Len(waits) = Len(attempts) - 1


(* ------------------------------------------------------------------ *)
(* The editor's run state (frontend App.jsx, components/CodeEditor.jsx) *)
(* ------------------------------------------------------------------ *)
MaxRuns == 2

(* what the editor holds after a change: nothing, blanks, or code *)
EditorValues == {"", " ", "// Welcome to the Code Editor!", "1+1"}

(* editorValue.trim() is not empty *)
HasCode(value) == value \notin {"", " "}

(* what api.executeCode settles with: the body of a 2xx answer, which is a
   success envelope with the output and error of the run or any other json,
   or the Error that request throws *)
ExecuteResponses ==
  {[kind |-> "success", output |-> o, error |-> e, message |-> ""] :
     o \in {"", "4"}, e \in {Null, Str("x is not defined")}}
  \cup {[kind |-> "success without data", output |-> "", error |-> Null,
         message |-> "Cannot destructure property 'output' of 'response.data' as it is undefined."]}
  \cup {[kind |-> "failure", output |-> "", error |-> Str("Internal server error"),
         message |-> ""]}
  \cup {[kind |-> "null", output |-> "", error |-> Null, message |-> ""]}
  \cup {[kind |-> "throws", output |-> "", error |-> Null, message |-> m] :
          m \in {"Failed to fetch", "HTTP error! status: 500"}}

CodeOutputOf_success_only(response) ==
  CASE response.kind = "success" ->
         IF response.error # Null THEN Str("Error: " \o response.error.s)
         ELSE Str(response.output)
    [] response.kind \in {"failure", "null"} -> Null
    [] OTHER -> Str("Error: " \o response.message)

(* the codeOutput the try and catch blocks of handleRunCode set *)
CodeOutputOf(response) ==
  CASE response.kind = "success" ->
         IF response.error # Null THEN Str("Error: " \o response.error.s)
         ELSE Str(response.output)
    [] response.kind \in {"failure", "null"} -> Str("Error: Unable to execute code")
    [] OTHER -> Str("Error: " \o response.message)

(* CodeEditor's handleCodeChange *)
HandleCodeChange ==
  /\ \E value \in EditorValues : editorValue' = value
  /\ UNCHANGED <<isCodeRunning, codeOutput, isRunning, executeRequests, runCount, lastResponse>>
  /\ UNCHANGED <<execVars, textVars, routeVars, storeVars, aiVars, retryVars>>

(* a click on Run, which the button takes unless it is disabled:
   CodeEditor's handleRunCode, App's handleRunCode up to its await, and the
   render that ends the click event *)
HandleRunCode ==
  /\ runCount < MaxRuns
  /\ ~(~HasCode(editorValue) \/ isRunning)
  /\ HasCode(editorValue)
  /\ isCodeRunning' = TRUE
  /\ codeOutput' = Null
  /\ executeRequests' = executeRequests + 1
  /\ runCount' = runCount + 1
  /\ isRunning' = TRUE
  /\ UNCHANGED <<editorValue, lastResponse>>
  /\ UNCHANGED <<execVars, textVars, routeVars, storeVars, aiVars, retryVars>>

(* the awaited api.executeCode settles: the rest of handleRunCode, its
   finally block included *)
ExecuteSettles ==
  /\ executeRequests > 0
  /\ \E response \in ExecuteResponses :
       /\ codeOutput' = CodeOutputOf(response)
       /\ lastResponse' = response
  /\ isCodeRunning' = FALSE
  /\ executeRequests' = executeRequests - 1
  /\ UNCHANGED <<isRunning, editorValue, runCount>>
  /\ UNCHANGED <<execVars, textVars, routeVars, storeVars, aiVars, retryVars>>

(* React renders App after the state updates of a settled run *)
Render ==
  /\ isRunning # isCodeRunning
  /\ isRunning' = isCodeRunning
  /\ UNCHANGED <<isCodeRunning, codeOutput, editorValue, executeRequests, runCount, lastResponse>>
  /\ UNCHANGED <<execVars, textVars, routeVars, storeVars, aiVars, retryVars>>

EditorNext == HandleCodeChange \/ HandleRunCode \/ ExecuteSettles \/ Render

EditorSpec == Init /\ [][EditorNext]_vars

(* C30: isCodeRunning is true exactly while an execute request started
   from the editor is in flight, so it is set at the start of handleRunCode
   and reset when the request settles, whether with a success envelope, a
   failure envelope or a thrown error; once a run has settled codeOutput is
   a string, not null; and at most one such request is in flight at a time. *)
C30_RunState ==
  /\ isCodeRunning <=> executeRequests > 0
  /\ executeRequests <= 1
  /\ (lastResponse # NoResponse /\ ~isCodeRunning) => codeOutput.t = "string"

(* a run that threw has settled: the flag is down and the output is the
   error text *)
C30_Witness ==
  /\ lastResponse.kind = "throws"
  /\ runCount = MaxRuns
  /\ ~isCodeRunning
  /\ executeRequests = 0
  /\ codeOutput = Str("Error: Failed to fetch")

====
